---- MODULE Spec2Model ----
(***************************************************************************)
(* Model of the quote engine of saas-crm (ml/pdf_parser.py, ml/main.py):   *)
(* text acquisition, quote classification, supplier line extraction and    *)
(* the supplier -> client pricing transformer.                             *)
(*                                                                         *)
(* Numbers.  Money is held as an integer number of hundredths (1.00 is     *)
(* 100).  Python's round(x, n) is modelled on exact rationals num/den with *)
(* ties going to the even neighbour, which is what round() documents; the  *)
(* binary representation error of floats is not modelled.  A confidence is *)
(* held in hundredths too (0.8 is 80).  An Optional value (None or v) is a *)
(* sequence of length 0 or 1.                                              *)
(***************************************************************************)
EXTENDS Integers, Sequences, FiniteSets, TLC

VARIABLES
    bpc,                  \* transformer: "idle", "built", "rebuilt"
    supplier_parsed,      \* transformer: the caller's input record (lines)
    cfg,                  \* transformer: keyword arguments of the call
    delivery_allocations, \* transformer: the local list of the last call
    client_quote,         \* transformer: Optional result of the last call
    quote_again,          \* transformer: Optional result of a repeated call
    epc,                  \* text acquisition: position in extract_text_from_pdf_bytes
    pdf,                  \* text acquisition: what each strategy meets in pdf_bytes
    text,                 \* text acquisition: the local variable text
    ocr,                  \* text acquisition: the local variable ocr
    extracted,            \* text acquisition: Optional return value
    calls,                \* text acquisition: strategies invoked so far, in order
    produced,             \* text acquisition: the texts the strategies returned
    cpc,                  \* classifier: "idle" or "classified"
    ctext,                \* classifier: the text argument, as its physical lines
    supplier_score,       \* classifier: the local supplier_score
    client_score,         \* classifier: the local client_score
    quote_type,           \* classifier: Optional return value
    ppc,                  \* parser: position in parse_quote_lines_from_text
    ptext,                \* parser: the text argument, as its physical lines
    i,                    \* parser: the line the first pass is at (from 1)
    pending_description,  \* parser: parts of the pending description (<<>> is None)
    pending_specs,        \* parser: the local list pending_specs
    in_quotation_section, \* parser: the local flag
    seen_langvalda_header, \* parser: the local flag
    lines,                \* parser: the items found so far
    candidates,           \* parser: the labelled totals found
    parsed,               \* parser: Optional return value
    qpc,                  \* endpoint: position in process_quote
    request,              \* endpoint: the request being served
    qtext,                \* endpoint: the local text, as its physical lines
    qtype,                \* endpoint: the local quote_type (Optional)
    supplier_try,         \* endpoint: Optional result of the supplier parser
    client_try,           \* endpoint: Optional result of the client parser
    invoked,              \* endpoint: the core functions called, in order
    response,             \* endpoint: Optional answer
    lpc,                  \* predict_lines: position of the caller
    entry,                \* predict_lines: the way into the transformer
    request_lines,        \* predict_lines: the caller's line records
    lcfg,                 \* predict_lines: the pricing options of the request
    norm_lines,           \* predict_lines: the local norm_lines of the last call
    quote_named,          \* predict_lines: Optional quote for unit_price/total
    quote_renamed,        \* predict_lines: Optional quote for costUnit/lineTotal
    kpc,                  \* client parser: "idle", "called" or "returned"
    ktext,                \* client parser: the text argument, as its physical lines
    client_parsed,        \* client parser: Optional return value
    gpc,                  \* quality gate: "idle", "called" or "returned"
    gate_text,            \* quality gate: the text argument of _is_gibberish
    quality_ok,           \* quality gate: Optional verdict, not _is_gibberish(text)
    frames,               \* concurrent calls: the locals of each call in progress
    hpc,                  \* parse endpoints: position in parse_quote or parse_pdf_legacy
    served_by,            \* parse endpoints: the handler serving the request
    hrequest,             \* parse endpoints: the request being served
    htype,                \* parse endpoints: the local quote_type (Optional)
    hinvoked,             \* parse endpoints: the core functions called, in order
    hresponse,            \* parse endpoints: Optional answer
    dpc,                  \* degenerate lines: "idle", "called", "returned"
    degenerate_parsed,    \* degenerate lines: the supplier record of the call
    degenerate_cfg,       \* degenerate lines: keyword arguments of the call
    degenerate_quote      \* degenerate lines: Optional result of the call

bvars == <<bpc, supplier_parsed, cfg, delivery_allocations, client_quote, quote_again>>

evars == <<epc, pdf, text, ocr, extracted, calls, produced>>

cvars == <<cpc, ctext, supplier_score, client_score, quote_type>>

pvars == <<ppc, ptext, i, pending_description, pending_specs, in_quotation_section,
           seen_langvalda_header, lines, candidates, parsed>>

qvars == <<qpc, request, qtext, qtype, supplier_try, client_try, invoked, response>>

lvars == <<lpc, entry, request_lines, lcfg, norm_lines, quote_named, quote_renamed>>

kvars == <<kpc, ktext, client_parsed>>

gvars == <<gpc, gate_text, quality_ok>>

fvars == <<frames>>

hvars == <<hpc, served_by, hrequest, htype, hinvoked, hresponse>>

dvars == <<dpc, degenerate_parsed, degenerate_cfg, degenerate_quote>>

vars == <<bvars, evars, cvars, pvars, qvars, lvars, kvars, gvars, fvars, hvars, dvars>>

None == <<>>

Some(v) == <<v>>

IsNone(o) == Len(o) = 0

\* ------------------------------------------------------------------------
\* Arithmetic helpers
\* ------------------------------------------------------------------------

Max(a, b) == IF a >= b THEN a ELSE b

Min(a, b) == IF a <= b THEN a ELSE b

Abs(a) == IF a >= 0 THEN a ELSE 0 - a

RECURSIVE Pow10(_)
Pow10(n) == IF n <= 0 THEN 1 ELSE 10 * Pow10(n - 1)

\* Digits kept by the money representation (hundredths).
BaseDigits == 2

\* The distance between two neighbouring values of round(_, round_to).
Step(round_to) == Pow10(BaseDigits - round_to)

\* floor(num / den) for den > 0
FloorDiv(num, den) == num \div den

\* num/den rounded to the nearest integer, ties to the even neighbour.
RoundHalfEven(num, den) ==
    LET q == FloorDiv(num, den)
        r == num - q * den
    IN  IF 2 * r < den THEN q
        ELSE IF 2 * r > den THEN q + 1
        ELSE IF q % 2 = 0 THEN q ELSE q + 1

\* A mutant of PyRound: truncation instead of rounding to nearest.
PyRoundTrunc(num, den, round_to) ==
    FloorDiv(num, den * Step(round_to)) * Step(round_to)

\* round(num/den, round_to) on a value counted in hundredths.
PyRound(num, den, round_to) ==
    RoundHalfEven(num, den * Step(round_to)) * Step(round_to)

RECURSIVE SumSeq(_)
SumSeq(s) == IF Len(s) = 0 THEN 0 ELSE Head(s) + SumSeq(Tail(s))

\* ------------------------------------------------------------------------
\* Quote pricing transformer: build_client_quote_from_supplier_parsed
\* ------------------------------------------------------------------------

\* Descriptions whose lower-cased text contains "delivery" or "shipping".
DeliveryDescs == {"Delivery", "Shipping"}

\* A mutant of is_delivery_ln: only "delivery" is recognised.
is_delivery_ln_only_delivery(desc) == desc = "Delivery"

\* bool(desc) and ("delivery" in desc.lower() or "shipping" in desc.lower())
is_delivery_ln(desc) == desc # "" /\ desc \in DeliveryDescs

\* qty = float(ln.get("qty") or ln.get("quantity") or 1)
LineQty(ln) == IF ln.qty # 0 THEN ln.qty ELSE IF ln.quantity # 0 THEN ln.quantity ELSE 1

\* total = float(ln.get("total") or (qty * unit))
LineTotal(ln) == IF ln.total # 0 THEN ln.total ELSE LineQty(ln) * ln.unit_price

\* The dict appended to base_items for a supplier line.
BaseItem(ln) ==
    [description |-> ln.description, qty |-> LineQty(ln),
     unit |-> ln.unit_price, total |-> LineTotal(ln)]

\* supplier_delivery_total after the partition loop over lines_in[1..n].
RECURSIVE SupplierDeliveryTotal(_)
SupplierDeliveryTotal(lines_in) ==
    IF Len(lines_in) = 0 THEN 0
    ELSE (IF is_delivery_ln(Head(lines_in).description)
          THEN Max(0, LineTotal(Head(lines_in))) ELSE 0)
         + SupplierDeliveryTotal(Tail(lines_in))

\* base_items after the partition loop: the non-delivery lines, in order.
RECURSIVE BaseItems(_)
BaseItems(lines_in) ==
    IF Len(lines_in) = 0 THEN <<>>
    ELSE IF is_delivery_ln(Head(lines_in).description)
         THEN BaseItems(Tail(lines_in))
         ELSE <<BaseItem(Head(lines_in))>> \o BaseItems(Tail(lines_in))

\* total_of_items = sum(bi["total"] for bi in base_items) or 0.0
TotalOfItems(base_items) == SumSeq([k \in 1..Len(base_items) |-> base_items[k].total])

\* The condition under which delivery is folded into the product lines.
Amalgamates(c, supplier_delivery_total, total_of_items) ==
    c.amalgamate_delivery /\ supplier_delivery_total > 0 /\ total_of_items > 0

\* A mutant of DeliveryAllocations: the weight is taken over the items plus
\* the delivery total, so the shares no longer add up to the delivery total.
DeliveryAllocationsOverGrandTotal(base_items, supplier_delivery_total, c) ==
    IF Amalgamates(c, supplier_delivery_total, TotalOfItems(base_items))
    THEN [k \in 1..Len(base_items) |->
            PyRound(supplier_delivery_total * base_items[k].total,
                    TotalOfItems(base_items) + supplier_delivery_total, c.round_to)]
    ELSE [k \in 1..Len(base_items) |-> 0]

\* A mutant of DeliveryAllocations: the delivery total is split equally.
DeliveryAllocationsEqualSplit(base_items, supplier_delivery_total, c) ==
    IF Amalgamates(c, supplier_delivery_total, TotalOfItems(base_items))
    THEN [k \in 1..Len(base_items) |->
            PyRound(supplier_delivery_total, Len(base_items), c.round_to)]
    ELSE [k \in 1..Len(base_items) |-> 0]

\* delivery_allocations: round(supplier_delivery_total * w, round_to) per item,
\* with w = bi["total"] / total_of_items, or all zero when not amalgamating.
DeliveryAllocations(base_items, supplier_delivery_total, c) ==
    IF Amalgamates(c, supplier_delivery_total, TotalOfItems(base_items))
    THEN [k \in 1..Len(base_items) |->
            PyRound(supplier_delivery_total * base_items[k].total,
                    TotalOfItems(base_items), c.round_to)]
    ELSE [k \in 1..Len(base_items) |-> 0]

\* unit_m of a product line: the effective unit price, uplifted and rounded.
UnitMarkedUp(bi, extra_cost, c) ==
    IF bi.qty # 0
    THEN PyRound((bi.total + extra_cost) * (100 + c.markup_percent), bi.qty * 100, c.round_to)
    ELSE PyRound(bi.unit * (100 + c.markup_percent), 100, c.round_to)

\* A mutant of ProductLine: the line total is the uplifted supplier total,
\* not the rounded unit price times the quantity.
ProductLineTotalFirst(bi, extra_cost, c) ==
    [description |-> bi.description,
     qty |-> bi.qty,
     unit_price |-> PyRound(bi.unit, 1, c.round_to),
     total |-> PyRound(bi.total, 1, c.round_to),
     unit_price_marked_up |-> UnitMarkedUp(bi, extra_cost, c),
     total_marked_up |->
         PyRound((bi.total + extra_cost) * (100 + c.markup_percent), 100, c.round_to)]

\* The client line built for base item bi with its delivery share.
ProductLine(bi, extra_cost, c) ==
    LET unit_m == UnitMarkedUp(bi, extra_cost, c)
    IN  [description |-> bi.description,
         qty |-> bi.qty,
         unit_price |-> PyRound(bi.unit, 1, c.round_to),
         total |-> PyRound(bi.total, 1, c.round_to),
         unit_price_marked_up |-> unit_m,
         total_marked_up |-> PyRound(unit_m * bi.qty, 1, c.round_to)]

\* A mutant of KeepsDeliveryLine: the delivery line is kept even when amalgamating.
KeepsDeliveryLineAlways(c, supplier_delivery_total) == supplier_delivery_total > 0

\* if not amalgamate_delivery and supplier_delivery_total > 0
KeepsDeliveryLine(c, supplier_delivery_total) ==
    ~c.amalgamate_delivery /\ supplier_delivery_total > 0

\* The "Delivery" line kept when delivery is not amalgamated.
SupplierDeliveryLine(supplier_delivery_total, c) ==
    LET uplift100 == IF c.markup_delivery THEN 100 + c.markup_percent ELSE 100
        unit_m == PyRound(supplier_delivery_total * uplift100, 100, c.round_to)
    IN  [description |-> "Delivery",
         qty |-> 1,
         unit_price |-> PyRound(supplier_delivery_total, 1, c.round_to),
         total |-> PyRound(supplier_delivery_total, 1, c.round_to),
         unit_price_marked_up |-> unit_m,
         total_marked_up |-> unit_m]

\* A mutant of AddsClientDelivery: any amount that is supplied adds the line.
AddsClientDeliveryWhenSupplied(c) == ~IsNone(c.client_delivery_gbp)

\* if client_delivery_gbp is not None and client_delivery_gbp > 0
AddsClientDelivery(c) ==
    ~IsNone(c.client_delivery_gbp) /\ c.client_delivery_gbp[1] > 0

\* The end-client delivery line appended after the markups.
ClientDeliveryLine(c) ==
    LET amt == PyRound(c.client_delivery_gbp[1], 1, c.round_to)
    IN  [description |-> IF c.client_delivery_description # ""
                         THEN c.client_delivery_description ELSE "Delivery",
         qty |-> 1,
         unit_price |-> 0,
         total |-> 0,
         unit_price_marked_up |-> amt,
         total_marked_up |-> amt]

\* client_lines at the return statement, from the locals base_items and
\* supplier_delivery_total as the partition loop left them.
ClientLinesOf(base_items, sdt, c) ==
    LET alloc == DeliveryAllocations(base_items, sdt, c)
    IN  [k \in 1..Len(base_items) |-> ProductLine(base_items[k], alloc[k], c)]
        \o (IF KeepsDeliveryLine(c, sdt) THEN <<SupplierDeliveryLine(sdt, c)>> ELSE <<>>)
        \o (IF AddsClientDelivery(c) THEN <<ClientDeliveryLine(c)>> ELSE <<>>)

\* client_lines at the return statement.
ClientLines(lines_in, c) ==
    ClientLinesOf(BaseItems(lines_in), SupplierDeliveryTotal(lines_in), c)

\* A mutant of VatAmount: VAT is computed whenever vat_percent is not zero.
VatAmountNonZero(subtotal, c) ==
    IF c.vat_percent # 0
    THEN PyRound(subtotal * c.vat_percent, 100, c.round_to)
    ELSE 0

\* round(subtotal * (vat_percent / 100.0), round_to) if vat_percent and vat_percent > 0 else 0.0
VatAmount(subtotal, c) ==
    IF c.vat_percent # 0 /\ c.vat_percent > 0
    THEN PyRound(subtotal * c.vat_percent, 100, c.round_to)
    ELSE 0

\* The dict returned once the partition loop has left base_items and
\* supplier_delivery_total (sdt).
QuoteOf(currency, base_items, sdt, c) ==
    LET client_lines == ClientLinesOf(base_items, sdt, c)
        subtotal == PyRound(SumSeq([k \in 1..Len(client_lines) |->
                                        client_lines[k].total_marked_up]), 1, c.round_to)
        vat_amount == VatAmount(subtotal, c)
    IN  [currency |-> currency,
         markup_percent |-> c.markup_percent,
         vat_percent |-> c.vat_percent,
         supplier_delivery_total |-> PyRound(sdt, 1, c.round_to),
         client_delivery_charge |->
             IF AddsClientDelivery(c)
             THEN Some(PyRound(c.client_delivery_gbp[1], 1, c.round_to)) ELSE None,
         lines |-> client_lines,
         subtotal |-> subtotal,
         vat_amount |-> vat_amount,
         grand_total |-> PyRound(subtotal + vat_amount, 1, c.round_to)]

\* The dict returned by build_client_quote_from_supplier_parsed.
build_client_quote_from_supplier_parsed(sp, c) ==
    QuoteOf(sp.currency, BaseItems(sp.lines), SupplierDeliveryTotal(sp.lines), c)

\* A mutant of LinesAfterBuild: the loop writes the marked-up total back
\* into the caller's line (ln["total"] = ...).
LinesAfterBuildWritesBack(lines_in, c) ==
    [k \in 1..Len(lines_in) |->
        [lines_in[k] EXCEPT !.total =
            PyRound(LineTotal(lines_in[k]) * (100 + c.markup_percent), 100, c.round_to)]]

\* The caller's lines after a call: the loop only reads each ln through
\* ln.get(...) and appends fresh dicts to base_items and client_lines.
LinesAfterBuild(lines_in, c) == lines_in

\* --- inputs of the transformer ---

\* Longest supplier quote handed to the transformer.
MaxLines == 4

Line(d, q, u, t) == [description |-> d, qty |-> q, quantity |-> 0, unit_price |-> u, total |-> t]

\* Supplier lines the quotes are made of (amounts in hundredths).
LineCatalogue ==
    { Line("A", 1, 10000, 10000),
      Line("B", 1, 20000, 20000),
      Line("Delivery", 0, 0, 3000),
      Line("Shipping", 1, 180, 180),
      Line("C", 3, 50, 0) }

RECURSIVE SeqsUpTo(_, _)
SeqsUpTo(S, n) ==
    IF n = 0 THEN {<<>>}
    ELSE LET shorter == SeqsUpTo(S, n - 1)
         IN  shorter \cup {Append(s, x) : s \in {t \in shorter : Len(t) = n - 1}, x \in S}

SupplierQuotes == {[currency |-> "GBP", lines |-> ls] : ls \in SeqsUpTo(LineCatalogue, MaxLines)}

ClientDeliveryChoices ==
    { [gbp |-> None, description |-> ""],
      [gbp |-> Some(0), description |-> ""],
      [gbp |-> Some(1550), description |-> "Courier"] }

Configs ==
    { [markup_percent |-> m, vat_percent |-> v, markup_delivery |-> md,
       amalgamate_delivery |-> am, client_delivery_gbp |-> cd.gbp,
       client_delivery_description |-> cd.description, round_to |-> r] :
        m \in {0, 20}, v \in {-5, 0, 20}, md \in BOOLEAN, am \in BOOLEAN,
        cd \in ClientDeliveryChoices, r \in {0, 2} }

NoConfig ==
    [markup_percent |-> 0, vat_percent |-> 0, markup_delivery |-> FALSE,
     amalgamate_delivery |-> FALSE, client_delivery_gbp |-> None,
     client_delivery_description |-> "", round_to |-> 0]

NoQuote == [currency |-> "", lines |-> <<>>]

BuildIdle ==
    /\ bpc = "idle"
    /\ supplier_parsed = NoQuote
    /\ cfg = NoConfig
    /\ delivery_allocations = <<>>
    /\ client_quote = None
    /\ quote_again = None

\* A caller holds a parsed supplier quote and the pricing options.
Receive ==
    /\ bpc = "idle"
    /\ \E sp \in SupplierQuotes, c \in Configs :
          /\ supplier_parsed' = sp
          /\ cfg' = c
    /\ bpc' = "ready"
    /\ UNCHANGED <<delivery_allocations, client_quote, quote_again>>
    /\ UNCHANGED <<evars, cvars, pvars, qvars, lvars, kvars, gvars, fvars, hvars, dvars>>

\* client_quote = build_client_quote_from_supplier_parsed(supplier_parsed, **cfg)
Build ==
    /\ bpc = "ready"
    /\ client_quote' = Some(build_client_quote_from_supplier_parsed(supplier_parsed, cfg))
    /\ delivery_allocations' =
          DeliveryAllocations(BaseItems(supplier_parsed.lines),
                              SupplierDeliveryTotal(supplier_parsed.lines), cfg)
    /\ supplier_parsed' =
          [supplier_parsed EXCEPT !.lines = LinesAfterBuild(supplier_parsed.lines, cfg)]
    /\ bpc' = "built"
    /\ UNCHANGED <<cfg, quote_again>>
    /\ UNCHANGED <<evars, cvars, pvars, qvars, lvars, kvars, gvars, fvars, hvars, dvars>>

\* The caller calls again with the record and options it still holds.
BuildAgain ==
    /\ bpc = "built"
    /\ quote_again' = Some(build_client_quote_from_supplier_parsed(supplier_parsed, cfg))
    /\ supplier_parsed' =
          [supplier_parsed EXCEPT !.lines = LinesAfterBuild(supplier_parsed.lines, cfg)]
    /\ bpc' = "rebuilt"
    /\ UNCHANGED <<cfg, delivery_allocations, client_quote>>
    /\ UNCHANGED <<evars, cvars, pvars, qvars, lvars, kvars, gvars, fvars, hvars, dvars>>

\* The request is over; nothing of it is kept.
Forget ==
    /\ bpc = "rebuilt"
    /\ bpc' = "idle"
    /\ supplier_parsed' = NoQuote
    /\ cfg' = NoConfig
    /\ delivery_allocations' = <<>>
    /\ client_quote' = None
    /\ quote_again' = None
    /\ UNCHANGED <<evars, cvars, pvars, qvars, lvars, kvars, gvars, fvars, hvars, dvars>>

\* ------------------------------------------------------------------------
\* Properties of the transformer (checked under SpecBuild)
\* ------------------------------------------------------------------------

Built == bpc \in {"built", "rebuilt"}

\* The number of product (non-delivery) lines of the quote held.
NProducts == Len(BaseItems(supplier_parsed.lines))

\* Whether the call held in the state folded delivery into the product lines.
Amalgamated ==
    Amalgamates(cfg, SupplierDeliveryTotal(supplier_parsed.lines),
                TotalOfItems(BaseItems(supplier_parsed.lines)))

\* |sum(delivery_allocations) - supplier_delivery_total| of the call held.
AllocationDeviation ==
    Abs(SumSeq(delivery_allocations) - SupplierDeliveryTotal(supplier_parsed.lines))

\* C1: in every result, grand_total = round(subtotal + vat_amount, precision),
\* vat_amount = round(subtotal * vat_percent / 100, precision) when
\* vat_percent > 0, and vat_amount = 0 when vat_percent <= 0.
C1_VatIdentity ==
    Built =>
        LET q == client_quote[1]
        IN  /\ q.grand_total = PyRound(q.subtotal + q.vat_amount, 1, cfg.round_to)
            /\ (cfg.vat_percent > 0 =>
                    q.vat_amount = PyRound(q.subtotal * cfg.vat_percent, 100, cfg.round_to))
            /\ (cfg.vat_percent <= 0 => q.vat_amount = 0)

C1_Witness ==
    /\ Built
    /\ cfg.vat_percent > 0
    /\ client_quote[1].vat_amount > 0
    /\ client_quote[1].grand_total > client_quote[1].subtotal

\* C2 (as claimed): whenever delivery is amalgamated, the allocations sum to
\* supplier_delivery_total within one unit of the rounding precision, for any
\* number of product lines.
C2_WithinOneUnit ==
    (Built /\ Amalgamated) => AllocationDeviation <= Step(cfg.round_to)

\* C2 (amended): whenever delivery is amalgamated, the allocations sum to
\* supplier_delivery_total within half a unit of the rounding precision per
\* product line (each share is rounded on its own, nothing redistributes the
\* remainder).
C2_WithinHalfUnitPerLine ==
    (Built /\ Amalgamated) => 2 * AllocationDeviation <= NProducts * Step(cfg.round_to)

C2_Witness ==
    /\ Built
    /\ Amalgamated
    /\ NProducts >= 3
    /\ AllocationDeviation > Step(cfg.round_to)

LineA == Line("A", 1, 10000, 10000)

LineB == Line("B", 1, 20000, 20000)

LineDelivery30 == Line("Delivery", 0, 0, 3000)

\* The concrete scenario: A (100), B (200), delivery 30, markup 20 %, VAT 20 %,
\* delivery amalgamated, precision 2.
Scenario ==
    /\ Built
    /\ supplier_parsed.lines = <<LineA, LineB, LineDelivery30>>
    /\ cfg.markup_percent = 20
    /\ cfg.vat_percent = 20
    /\ cfg.amalgamate_delivery
    /\ cfg.round_to = 2
    /\ IsNone(cfg.client_delivery_gbp)

\* C9: in the concrete scenario the allocations are 10.00 and 20.00, the
\* marked-up unit prices 132.00 and 264.00, subtotal 396.00, VAT 79.20, grand
\* total 475.20, and the output has lines for A and B only.
C9_Scenario ==
    Scenario =>
        LET q == client_quote[1]
        IN  /\ delivery_allocations = <<1000, 2000>>
            /\ Len(q.lines) = 2
            /\ q.lines[1].description = "A"
            /\ q.lines[2].description = "B"
            /\ q.lines[1].unit_price_marked_up = 13200
            /\ q.lines[2].unit_price_marked_up = 26400
            /\ q.subtotal = 39600
            /\ q.vat_amount = 7920
            /\ q.grand_total = 47520

C9_Witness == Scenario /\ client_quote[1].grand_total = 47520

DeliveryKept ==
    /\ Built
    /\ ~cfg.amalgamate_delivery
    /\ SupplierDeliveryTotal(supplier_parsed.lines) > 0

\* The sum of total_marked_up over the lines of the output.
SumMarkedUp(q) == SumSeq([k \in 1..Len(q.lines) |-> q.lines[k].total_marked_up])

LinesBeforeClientDelivery ==
    NProducts
    + (IF ~cfg.amalgamate_delivery /\ SupplierDeliveryTotal(supplier_parsed.lines) > 0
       THEN 1 ELSE 0)

\* The output ends with an end-client delivery line of the amount amt.
EndsWithClientDelivery(q, amt) ==
    /\ Len(q.lines) = LinesBeforeClientDelivery + 1
    /\ q.lines[Len(q.lines)].unit_price = 0
    /\ q.lines[Len(q.lines)].total = 0
    /\ q.lines[Len(q.lines)].total_marked_up = amt
    /\ q.subtotal = SumMarkedUp(q)
    /\ q.client_delivery_charge = Some(amt)

\* The output has no end-client delivery line.
NoClientDelivery(q) ==
    /\ Len(q.lines) = LinesBeforeClientDelivery
    /\ q.subtotal = SumMarkedUp(q)
    /\ q.client_delivery_charge = None

\* C13 (as claimed): when a client delivery amount is supplied, one line is
\* appended after all others with unit_price 0, total 0 and total_marked_up
\* equal to the amount, whatever markup_percent is; the amount is part of
\* subtotal and is reported as client_delivery_charge.  When none is
\* supplied there is no such line and client_delivery_charge is null.
C13_ClientDeliveryLine ==
    Built =>
        IF cfg.client_delivery_gbp # None
        THEN EndsWithClientDelivery(client_quote[1], cfg.client_delivery_gbp[1])
        ELSE NoClientDelivery(client_quote[1])

\* C13 (amended): the line is appended when the amount supplied is greater
\* than zero, and it carries the amount rounded to the precision; with no
\* amount, or an amount of zero, there is no such line and
\* client_delivery_charge is null.
C13_PositiveClientDeliveryLine ==
    Built =>
        IF cfg.client_delivery_gbp # None /\ cfg.client_delivery_gbp[1] > 0
        THEN EndsWithClientDelivery(client_quote[1],
                                    PyRound(cfg.client_delivery_gbp[1], 1, cfg.round_to))
        ELSE NoClientDelivery(client_quote[1])

\* An amount of 15.50 appended as it is after two product lines marked up by
\* 20 %, and reported as the charge.
C13_Witness ==
    /\ Built
    /\ cfg.client_delivery_gbp = Some(1550)
    /\ cfg.markup_percent = 20
    /\ cfg.round_to = 2
    /\ NProducts = 2
    /\ client_quote[1].lines[Len(client_quote[1].lines)].total_marked_up = 1550
    /\ client_quote[1].lines[Len(client_quote[1].lines)].total = 0
    /\ client_quote[1].client_delivery_charge = Some(1550)

\* ------------------------------------------------------------------------
\* Calls of the transformer with degenerate lines: quantity 0, total 0
\* ------------------------------------------------------------------------

\* Longest supplier quote with degenerate lines.
MaxDegenerateLines == 2

\* Supplier lines with a quantity of 0 or a total of 0, next to ordinary
\* products and a delivery charge (amounts in hundredths).
DegenerateCatalogue ==
    { Line("Door", 0, 5000, 12000),
      Line("Window", 0, 5000, 0),
      Line("Sample", 1, 0, 0),
      Line("Delivery", 1, 3000, 3000),
      Line("A", 2, 10000, 20000),
      Line("C", 3, 50, 0) }

DegenerateQuotes ==
    {[currency |-> "GBP", lines |-> ls] : ls \in SeqsUpTo(DegenerateCatalogue, MaxDegenerateLines)}

DegenerateConfigs ==
    { [markup_percent |-> m, vat_percent |-> 0, markup_delivery |-> md,
       amalgamate_delivery |-> am, client_delivery_gbp |-> cd.gbp,
       client_delivery_description |-> cd.description, round_to |-> r] :
        m \in {0, 20}, md \in BOOLEAN, am \in BOOLEAN,
        cd \in ClientDeliveryChoices, r \in {0, 2} }

DegenerateIdle ==
    /\ dpc = "idle"
    /\ degenerate_parsed = NoQuote
    /\ degenerate_cfg = NoConfig
    /\ degenerate_quote = None

\* A caller calls the transformer.
DegenerateCall ==
    /\ dpc = "idle"
    /\ \E sp \in DegenerateQuotes, c \in DegenerateConfigs :
          /\ degenerate_parsed' = sp
          /\ degenerate_cfg' = c
    /\ dpc' = "called"
    /\ UNCHANGED degenerate_quote
    /\ UNCHANGED <<bvars, evars, cvars, pvars, qvars, lvars, kvars, gvars, fvars, hvars>>

\* return {...}
DegenerateReturn ==
    /\ dpc = "called"
    /\ degenerate_quote' =
          Some(build_client_quote_from_supplier_parsed(degenerate_parsed, degenerate_cfg))
    /\ dpc' = "returned"
    /\ UNCHANGED <<degenerate_parsed, degenerate_cfg>>
    /\ UNCHANGED <<bvars, evars, cvars, pvars, qvars, lvars, kvars, gvars, fvars, hvars>>

\* The caller is done with the result.
DegenerateForget ==
    /\ dpc = "returned"
    /\ dpc' = "idle"
    /\ degenerate_parsed' = NoQuote
    /\ degenerate_cfg' = NoConfig
    /\ degenerate_quote' = None
    /\ UNCHANGED <<bvars, evars, cvars, pvars, qvars, lvars, kvars, gvars, fvars, hvars>>

\* The supplier's product lines, in order: the lines that are not delivery lines.
ProductsGiven(lines_in) ==
    SelectSeq(lines_in, LAMBDA ln : ~is_delivery_ln(ln.description))

\* C24: for a product line whose qty is 0 the effective unit price before
\* markup is the line's own unit_price: the quantity stays 0 in the client
\* line, nothing is divided by it and no other quantity stands in for it.
C24_ZeroQtyUsesUnitPrice ==
    dpc = "returned" =>
        LET given == ProductsGiven(degenerate_parsed.lines)
            out == degenerate_quote[1].lines
        IN  \A k \in 1..Len(given) :
                given[k].qty = 0 =>
                    /\ out[k].qty = 0
                    /\ out[k].unit_price_marked_up =
                          PyRound(given[k].unit_price * (100 + degenerate_cfg.markup_percent),
                                  100, degenerate_cfg.round_to)

\* C25: the supplier's delivery cost is never dropped: whenever
\* supplier_delivery_total > 0 the subtotal carries it, as shares folded into
\* the product lines or as a Delivery line, whatever amalgamate_delivery is
\* and whatever the product lines are (none, or totals that sum to 0).
C25_DeliveryInSubtotal ==
    dpc = "returned" =>
        LET base_items == BaseItems(degenerate_parsed.lines)
            without == QuoteOf(degenerate_parsed.currency, base_items, 0, degenerate_cfg)
        IN  degenerate_quote[1].supplier_delivery_total > 0 =>
                degenerate_quote[1].subtotal > without.subtotal

\* --- markup_delivery under amalgamation ---

\* The options of the call with markup_delivery the other way round.
OtherMarkupDelivery(c) == [c EXCEPT !.markup_delivery = ~@]

\* The delivery shares of the call: the local delivery_allocations.
DegenerateAllocations ==
    DeliveryAllocations(BaseItems(degenerate_parsed.lines),
                        SupplierDeliveryTotal(degenerate_parsed.lines), degenerate_cfg)

\* C26: when amalgamate_delivery is true, markup_delivery has no effect: the
\* call with the other value of markup_delivery returns the same quote, and
\* the delivery share folded into each product line is uplifted by
\* markup_percent with the line's own total.
C26_MarkupDeliveryIgnored ==
    (dpc = "returned" /\ degenerate_cfg.amalgamate_delivery) =>
        LET base_items == BaseItems(degenerate_parsed.lines)
            out == degenerate_quote[1].lines
        IN  /\ build_client_quote_from_supplier_parsed(
                    degenerate_parsed, OtherMarkupDelivery(degenerate_cfg))
                  = degenerate_quote[1]
            /\ \A k \in 1..Len(base_items) :
                  out[k].unit_price_marked_up =
                      PyRound((base_items[k].total + DegenerateAllocations[k])
                                  * (100 + degenerate_cfg.markup_percent),
                              base_items[k].qty * 100, degenerate_cfg.round_to)

\* A delivery share was folded into a product line and uplifted, in a call
\* that asked not to mark up delivery.
C26_Witness ==
    /\ dpc = "returned"
    /\ degenerate_cfg.amalgamate_delivery /\ ~degenerate_cfg.markup_delivery
    /\ degenerate_cfg.markup_percent > 0
    /\ \E k \in 1..Len(DegenerateAllocations) :
          /\ DegenerateAllocations[k] > 0
          /\ degenerate_quote[1].lines[k].unit_price_marked_up
                > PyRound((BaseItems(degenerate_parsed.lines)[k].total
                             + DegenerateAllocations[k]) * 100,
                          BaseItems(degenerate_parsed.lines)[k].qty * 100,
                          degenerate_cfg.round_to)

\* --- subtotal and line totals ---

\* C27: in every result subtotal = round(sum of total_marked_up over all
\* output lines, precision), and every product line has
\* total_marked_up = round(unit_price_marked_up * qty, precision).
C27_SubtotalIsSumOfLines ==
    dpc = "returned" =>
        LET q == degenerate_quote[1]
            n == Len(BaseItems(degenerate_parsed.lines))
        IN  /\ q.subtotal =
                  PyRound(SumSeq([k \in 1..Len(q.lines) |-> q.lines[k].total_marked_up]),
                          1, degenerate_cfg.round_to)
            /\ \A k \in 1..n :
                  q.lines[k].total_marked_up =
                      PyRound(q.lines[k].unit_price_marked_up * q.lines[k].qty,
                              1, degenerate_cfg.round_to)

\* A result with a product line of three units whose total differs from the
\* uplifted supplier total because the unit price was rounded first, followed
\* by a delivery line.
C27_Witness ==
    /\ dpc = "returned"
    /\ Len(degenerate_quote[1].lines) > Len(BaseItems(degenerate_parsed.lines))
    /\ \E k \in 1..Len(BaseItems(degenerate_parsed.lines)) :
          LET ln == degenerate_quote[1].lines[k]
          IN  /\ ln.qty = 3
              /\ ln.total_marked_up #
                    PyRound(ln.total * (100 + degenerate_cfg.markup_percent),
                            100, degenerate_cfg.round_to)

\* ------------------------------------------------------------------------
\* Per-line pricing endpoint: predict_lines, the second way into the transformer
\* ------------------------------------------------------------------------

\* A line record of a request body; every numeric key is Optional (None: the
\* key is absent or null), description "" stands for no description.
RawLine(d, q, u, t) ==
    [description |-> d, qty |-> q, quantity |-> None, unit_price |-> u, total |-> t,
     costUnit |-> None, lineTotal |-> None]

\* The same record written with costUnit/lineTotal in place of unit_price/total.
Renamed(ln) ==
    [ln EXCEPT !.unit_price = None, !.total = None,
               !.costUnit = ln.unit_price, !.lineTotal = ln.total]

\* What `ln.get(key) or ...` sees: an absent key and a zero are both falsy.
Falsy(o) == IF IsNone(o) THEN 0 ELSE o[1]

\* The keys build_client_quote_from_supplier_parsed reads of a line it is given:
\* description, qty, quantity, unit_price and total, and no other.
ReadByTransformer(ln) ==
    [description |-> ln.description, qty |-> Falsy(ln.qty), quantity |-> Falsy(ln.quantity),
     unit_price |-> Falsy(ln.unit_price), total |-> Falsy(ln.total)]

\* x if x is not None else y
FirstGiven(x, y) == IF x # None THEN x ELSE y

\* qty of predict_lines: qty, else quantity, else 1.0; a qty <= 0 becomes 1.0
NormQty(ln) ==
    LET qty_raw == FirstGiven(ln.qty, ln.quantity)
        qty     == IF qty_raw # None THEN qty_raw[1] ELSE 1
    IN  IF qty <= 0 THEN 1 ELSE qty

\* The dict predict_lines appends to norm_lines for one request line.  The
\* request lines without a unit price have a total that qty divides.
NormLine(ln) ==
    LET qty     == NormQty(ln)
        unit    == FirstGiven(ln.unit_price, ln.costUnit)
        total   == FirstGiven(ln.total, ln.lineTotal)
        unit_f  == IF unit = None /\ total # None THEN Some(total[1] \div qty) ELSE unit
        total_f == IF total = None /\ unit_f # None THEN Some(unit_f[1] * qty) ELSE total
    IN  [description |-> IF ln.description # "" THEN ln.description ELSE "Item",
         qty |-> qty, quantity |-> 0,
         unit_price |-> Falsy(unit_f), total |-> Falsy(total_f)]

\* norm_lines after the loop of predict_lines
NormLines(ls) == [k \in 1..Len(ls) |-> NormLine(ls[k])]

\* client_quote of predict_lines for the request lines ls and options c
predict_lines(ls, c) ==
    build_client_quote_from_supplier_parsed([currency |-> "GBP", lines |-> NormLines(ls)], c)

\* A caller that hands its line records to the transformer itself.
DirectCall(ls, c) ==
    build_client_quote_from_supplier_parsed(
        [currency |-> "GBP", lines |-> [k \in 1..Len(ls) |-> ReadByTransformer(ls[k])]], c)

EntryPaths == {"predict_lines", "direct"}

Enter(path, ls, c) == IF path = "predict_lines" THEN predict_lines(ls, c) ELSE DirectCall(ls, c)

\* --- inputs of predict_lines ---

\* Longest request body.
MaxPredictLines == 2

\* Request lines written with unit_price/total (amounts in hundredths).
RawCatalogue ==
    { RawLine("A", Some(1), Some(10000), Some(10000)),
      RawLine("B", Some(2), None, Some(3000)),
      RawLine("", Some(0), Some(500), None),
      RawLine("Delivery", None, None, Some(3000)),
      [RawLine("C", None, Some(50), None) EXCEPT !.quantity = Some(3)] }

RawRequests == SeqsUpTo(RawCatalogue, MaxPredictLines) \ {<<>>}

\* The pricing options of the requests.
PredictConfigs ==
    {c \in Configs : /\ c.vat_percent = 20 /\ c.round_to = 2
                     /\ c.client_delivery_gbp = None /\ ~c.markup_delivery}

PredictIdle ==
    /\ lpc = "idle"
    /\ entry = ""
    /\ request_lines = <<>>
    /\ lcfg = NoConfig
    /\ norm_lines = <<>>
    /\ quote_named = None
    /\ quote_renamed = None

\* A caller holds line records and chooses the way into the transformer.
Submit ==
    /\ lpc = "idle"
    /\ \E path \in EntryPaths, ls \in RawRequests, c \in PredictConfigs :
          /\ entry' = path
          /\ request_lines' = ls
          /\ lcfg' = c
    /\ lpc' = "named"
    /\ UNCHANGED <<norm_lines, quote_named, quote_renamed>>
    /\ UNCHANGED <<bvars, evars, cvars, pvars, qvars, kvars, gvars, fvars, hvars, dvars>>

\* The records are sent with the field names unit_price/total.
CallNamed ==
    /\ lpc = "named"
    /\ norm_lines' = IF entry = "predict_lines" THEN NormLines(request_lines) ELSE <<>>
    /\ quote_named' = Some(Enter(entry, request_lines, lcfg))
    /\ lpc' = "renamed"
    /\ UNCHANGED <<entry, request_lines, lcfg, quote_renamed>>
    /\ UNCHANGED <<bvars, evars, cvars, pvars, qvars, kvars, gvars, fvars, hvars, dvars>>

\* The same records are sent with the field names costUnit/lineTotal.
CallRenamed ==
    /\ lpc = "renamed"
    /\ LET renamed == [k \in 1..Len(request_lines) |-> Renamed(request_lines[k])]
       IN  /\ norm_lines' = IF entry = "predict_lines" THEN NormLines(renamed) ELSE <<>>
           /\ quote_renamed' = Some(Enter(entry, renamed, lcfg))
    /\ lpc' = "done"
    /\ UNCHANGED <<entry, request_lines, lcfg, quote_named>>
    /\ UNCHANGED <<bvars, evars, cvars, pvars, qvars, kvars, gvars, fvars, hvars, dvars>>

\* Both answers are back; nothing of the requests is kept.
PredictForget ==
    /\ lpc = "done"
    /\ lpc' = "idle"
    /\ entry' = ""
    /\ request_lines' = <<>>
    /\ lcfg' = NoConfig
    /\ norm_lines' = <<>>
    /\ quote_named' = None
    /\ quote_renamed' = None
    /\ UNCHANGED <<bvars, evars, cvars, pvars, qvars, kvars, gvars, fvars, hvars, dvars>>

\* --- claims about the two field namings ---

\* C14: a line record given with costUnit/lineTotal produces the same client
\* quote as the same record given with unit_price/total, on every entry path
\* to the transformer (predict_lines and a direct call).
C14_SameQuoteEitherNaming == lpc = "done" => quote_renamed = quote_named

\* ------------------------------------------------------------------------
\* Text acquisition and quality gate: extract_text_from_pdf_bytes
\* ------------------------------------------------------------------------

\* A text is held by what the quality gate reads of it: its alphanumeric,
\* other non-blank and whitespace characters, the extended-range characters
\* (128..159) among its first 200, its first 30 whitespace-delimited words and
\* how many of them are longer than 2 and hold a letter.  src names the
\* strategy that produced it ("" for the empty string).
Text(src, alnum, other, ws, ext, words, alpha_words) ==
    [src |-> src, alnum |-> alnum, other |-> other, ws |-> ws, ext |-> ext,
     words |-> words, alpha_words |-> alpha_words]

\* ""
EmptyText == Text("", 0, 0, 0, 0, 0, 0)

\* len(text)
TextLen(t) == t.alnum + t.other + t.ws

\* bool(text): the string is not empty
Truthy(t) == TextLen(t) > 0

\* bool(text.strip()): the string holds a non-blank character
Stripped(t) == t.alnum + t.other > 0

\* Shortest text the gate accepts.
MinTextLen == 20

\* Most extended-range characters the gate accepts among the first 200.
MaxExtended == 10

\* A mutant of _is_gibberish: the alphanumeric rule is dropped.
is_gibberish_no_ratio(t) ==
    \/ ~Truthy(t) \/ TextLen(t) < MinTextLen
    \/ t.alnum + t.other = 0
    \/ t.ext > MaxExtended
    \/ 10 * t.alpha_words < 3 * t.words

\* _is_gibberish(text)
is_gibberish(t) ==
    \/ ~Truthy(t) \/ TextLen(t) < MinTextLen
    \/ t.alnum + t.other = 0
    \/ 2 * t.alnum < t.alnum + t.other
    \/ t.ext > MaxExtended
    \/ 10 * t.alpha_words < 3 * t.words

\* What a strategy can meet in a document.
Outcomes == {"good", "gibberish", "empty", "raises", "missing"}

\* The text a strategy's library yields when it runs to the end.
LibraryText(src, outcome) ==
    CASE outcome = "good" -> Text(src, 30, 2, 5, 0, 6, 6)
      [] outcome = "gibberish" -> Text(src, 8, 12, 0, 0, 1, 1)
      [] OTHER -> EmptyText

\* The result of calling a strategy: the string returned, or an exception.
Returned(t) == [text |-> t, raised |-> FALSE]

Raised == [text |-> EmptyText, raised |-> TRUE]

\* A mutant of Strategy: no try/except around the library calls.
StrategyUnguarded(src, outcome) ==
    IF outcome = "missing" THEN Returned(EmptyText)
    ELSE IF outcome = "raises" THEN Raised
    ELSE Returned(LibraryText(src, outcome))

\* _extract_text_pymupdf, _extract_text_pypdf and _ocr_pages share one shape:
\* return '' when the library is missing, run the library under
\* try/except Exception and return '' from the handler.
Strategy(src, outcome) ==
    IF outcome = "missing" THEN Returned(EmptyText)
    ELSE IF outcome = "raises" THEN Returned(EmptyText)
    ELSE Returned(LibraryText(src, outcome))

_extract_text_pymupdf(d) == Strategy("pymupdf", d.pymupdf)

_extract_text_pypdf(d) == Strategy("pypdf", d.pypdf)

_ocr_pages(d) == Strategy("ocr", d.ocr)

Pdfs == [pymupdf : Outcomes, pypdf : Outcomes, ocr : Outcomes]

NoPdf == [pymupdf |-> "empty", pypdf |-> "empty", ocr |-> "empty"]

ExtractIdle ==
    /\ epc = "idle"
    /\ pdf = NoPdf
    /\ text = EmptyText
    /\ ocr = EmptyText
    /\ extracted = None
    /\ calls = <<>>
    /\ produced = {}

\* extract_text_from_pdf_bytes(pdf_bytes) is called.
ExtractCall ==
    /\ epc = "idle"
    /\ \E d \in Pdfs : pdf' = d
    /\ epc' = "pymupdf"
    /\ UNCHANGED <<text, ocr, extracted, calls, produced>>
    /\ UNCHANGED <<bvars, cvars, pvars, qvars, lvars, kvars, gvars, fvars, hvars, dvars>>

\* text = _extract_text_pymupdf(pdf_bytes); return it if it passes the gate.
TryPyMuPDF ==
    /\ epc = "pymupdf"
    /\ LET r == _extract_text_pymupdf(pdf)
       IN  /\ calls' = Append(calls, "pymupdf")
           /\ IF r.raised
              THEN /\ epc' = "raised"
                   /\ UNCHANGED <<text, extracted, produced>>
              ELSE /\ text' = r.text
                   /\ produced' = produced \cup {r.text}
                   /\ IF Stripped(r.text) /\ ~is_gibberish(r.text)
                      THEN epc' = "done" /\ extracted' = Some(r.text)
                      ELSE epc' = "ocr_early" /\ UNCHANGED extracted
    /\ UNCHANGED <<pdf, ocr>>
    /\ UNCHANGED <<bvars, cvars, pvars, qvars, lvars, kvars, gvars, fvars, hvars, dvars>>

\* A mutant of TryOcrEarly: OCR is tried as soon as the primary extractor
\* has not returned a good text, blank or not.
TryOcrEarlyUnconditional ==
    /\ epc = "ocr_early"
    /\ LET r == _ocr_pages(pdf)
       IN  /\ calls' = Append(calls, "ocr")
           /\ ocr' = r.text
           /\ produced' = produced \cup {r.text}
           /\ IF Stripped(r.text) /\ ~is_gibberish(r.text)
              THEN epc' = "done" /\ extracted' = Some(r.text)
              ELSE epc' = "pypdf" /\ UNCHANGED extracted
    /\ UNCHANGED <<pdf, text>>
    /\ UNCHANGED <<bvars, cvars, pvars, qvars, lvars, kvars, gvars, fvars, hvars, dvars>>

\* if text.strip() and _is_gibberish(text): try OCR immediately.
TryOcrEarly ==
    /\ epc = "ocr_early"
    /\ IF Stripped(text) /\ is_gibberish(text)
       THEN LET r == _ocr_pages(pdf)
            IN  /\ calls' = Append(calls, "ocr")
                /\ IF r.raised
                   THEN /\ epc' = "raised"
                        /\ UNCHANGED <<ocr, extracted, produced>>
                   ELSE /\ ocr' = r.text
                        /\ produced' = produced \cup {r.text}
                        /\ IF Stripped(r.text) /\ ~is_gibberish(r.text)
                           THEN epc' = "done" /\ extracted' = Some(r.text)
                           ELSE epc' = "pypdf" /\ UNCHANGED extracted
       ELSE /\ epc' = "pypdf"
            /\ UNCHANGED <<ocr, extracted, calls, produced>>
    /\ UNCHANGED <<pdf, text>>
    /\ UNCHANGED <<bvars, cvars, pvars, qvars, lvars, kvars, gvars, fvars, hvars, dvars>>

\* text = _extract_text_pypdf(pdf_bytes); return it if it passes the gate.
TryPyPDF ==
    /\ epc = "pypdf"
    /\ LET r == _extract_text_pypdf(pdf)
       IN  /\ calls' = Append(calls, "pypdf")
           /\ IF r.raised
              THEN /\ epc' = "raised"
                   /\ UNCHANGED <<text, extracted, produced>>
              ELSE /\ text' = r.text
                   /\ produced' = produced \cup {r.text}
                   /\ IF Stripped(r.text) /\ ~is_gibberish(r.text)
                      THEN epc' = "done" /\ extracted' = Some(r.text)
                      ELSE epc' = "ocr_final" /\ UNCHANGED extracted
    /\ UNCHANGED <<pdf, ocr>>
    /\ UNCHANGED <<bvars, cvars, pvars, qvars, lvars, kvars, gvars, fvars, hvars, dvars>>

\* ocr = _ocr_pages(pdf_bytes, max_pages=5); return ocr or text or ""
TryOcrFinal ==
    /\ epc = "ocr_final"
    /\ LET r == _ocr_pages(pdf)
       IN  /\ calls' = Append(calls, "ocr")
           /\ IF r.raised
              THEN /\ epc' = "raised"
                   /\ UNCHANGED <<ocr, extracted, produced>>
              ELSE /\ ocr' = r.text
                   /\ produced' = produced \cup {r.text}
                   /\ epc' = "done"
                   /\ extracted' = Some(IF Truthy(r.text) THEN r.text
                                        ELSE IF Truthy(text) THEN text ELSE EmptyText)
    /\ UNCHANGED <<pdf, text>>
    /\ UNCHANGED <<bvars, cvars, pvars, qvars, lvars, kvars, gvars, fvars, hvars, dvars>>

\* The caller has the result (or the exception); the locals are gone.
ExtractReturn ==
    /\ epc \in {"done", "raised"}
    /\ epc' = "idle"
    /\ pdf' = NoPdf
    /\ text' = EmptyText
    /\ ocr' = EmptyText
    /\ extracted' = None
    /\ calls' = <<>>
    /\ produced' = {}
    /\ UNCHANGED <<bvars, cvars, pvars, qvars, lvars, kvars, gvars, fvars, hvars, dvars>>

\* ------------------------------------------------------------------------
\* Calls of the quality gate: _is_gibberish
\* ------------------------------------------------------------------------

\* Most non-blank characters of a text handed to the gate.
MaxCleanLen == 20

\* The texts handed to the gate.  A word is a run of non-blank characters
\* between whitespace; a recognisable word has three characters or more, one
\* of them a letter; the characters 128..159 are not alphanumeric.
GateTexts ==
    { Text("pymupdf", a, o, w, e, n, m) :
        a \in 0..MaxCleanLen, o \in 0..MaxCleanLen, w \in {0, 3},
        e \in {0, MaxExtended + 1}, n \in 0..4, m \in 0..4 }

WellFormedText(t) ==
    /\ t.alnum + t.other <= MaxCleanLen
    /\ t.ext <= t.other
    /\ (t.words = 0) = (t.alnum + t.other = 0)
    /\ t.words <= t.alnum + t.other
    /\ t.words <= t.ws + 1
    /\ t.alpha_words <= t.words
    /\ t.alpha_words <= t.alnum
    /\ 3 * t.alpha_words + (t.words - t.alpha_words) <= t.alnum + t.other

GateIdle ==
    /\ gpc = "idle"
    /\ gate_text = EmptyText
    /\ quality_ok = None

\* _is_gibberish(text) is called.
GateCall ==
    /\ gpc = "idle"
    /\ \E t \in GateTexts : WellFormedText(t) /\ gate_text' = t
    /\ gpc' = "called"
    /\ UNCHANGED quality_ok
    /\ UNCHANGED <<bvars, evars, cvars, pvars, qvars, lvars, kvars, fvars, hvars, dvars>>

\* The verdict: the text passes when _is_gibberish returns False.
GateReturn ==
    /\ gpc = "called"
    /\ quality_ok' = Some(~is_gibberish(gate_text))
    /\ gpc' = "returned"
    /\ UNCHANGED gate_text
    /\ UNCHANGED <<bvars, evars, cvars, pvars, qvars, lvars, kvars, fvars, hvars, dvars>>

\* The caller has used the verdict.
GateForget ==
    /\ gpc = "returned"
    /\ gpc' = "idle"
    /\ gate_text' = EmptyText
    /\ quality_ok' = None
    /\ UNCHANGED <<bvars, evars, cvars, pvars, qvars, lvars, kvars, fvars, hvars, dvars>>

\* --- claims about the quality gate ---

\* The alphanumeric ratio of the whitespace-stripped text is num/den.
AlnumRatioIs(t, num, den) == /\ t.alnum + t.other > 0
                             /\ den * t.alnum = num * (t.alnum + t.other)

\* The gate has judged a text of at least 20 characters.
JudgedLongText == gpc = "returned" /\ TextLen(gate_text) >= MinTextLen

\* The rules of the gate that come after the alphanumeric rule let the text pass.
PassesLaterRules(t) == t.ext <= MaxExtended /\ 10 * t.alpha_words >= 3 * t.words

\* C16 as stated: for text of at least 20 characters, text with alphanumeric
\* ratio 0.4 is rejected (quality_ok false) and text with ratio 0.6 is
\* accepted (quality_ok true).
C16_RatioBoundary ==
    JudgedLongText =>
        /\ (AlnumRatioIs(gate_text, 2, 5) => quality_ok = Some(FALSE))
        /\ (AlnumRatioIs(gate_text, 3, 5) => quality_ok = Some(TRUE))

\* C16 amended: for text of at least 20 characters, text whose alphanumeric
\* ratio is below 0.5 (0.4 for one) is rejected, and text whose ratio is 0.5
\* or more (0.6 for one) is accepted when the extended-character rule and
\* the recognisable-word rule let it pass.
C16_RatioRule ==
    JudgedLongText =>
        /\ (2 * gate_text.alnum < gate_text.alnum + gate_text.other
                => quality_ok = Some(FALSE))
        /\ (AlnumRatioIs(gate_text, 2, 5) => quality_ok = Some(FALSE))
        /\ ((/\ 2 * gate_text.alnum >= gate_text.alnum + gate_text.other
             /\ gate_text.alnum + gate_text.other > 0
             /\ PassesLaterRules(gate_text))
                => quality_ok = Some(TRUE))
        /\ (AlnumRatioIs(gate_text, 3, 5) /\ ~PassesLaterRules(gate_text)
                => quality_ok = Some(FALSE))

C16_Witness ==
    /\ gpc = "returned"
    /\ gate_text = Text("pymupdf", 12, 8, 3, 0, 4, 2)
    /\ AlnumRatioIs(gate_text, 3, 5)
    /\ quality_ok = Some(TRUE)

\* ------------------------------------------------------------------------
\* Properties of text acquisition (checked under SpecExtract)
\* ------------------------------------------------------------------------

\* Some strategy invoked during the call returned a non-empty text.
SomeTextProduced == \E t \in produced : Truthy(t)

\* C5: a call never ends in an exception, it returns a string, and the string
\* is "" when every strategy invoked yielded no text.
C5_NeverRaises ==
    /\ epc # "raised"
    /\ (epc = "done" =>
            /\ ~IsNone(extracted)
            /\ (~SomeTextProduced => extracted[1] = EmptyText))

C5_Witness ==
    /\ epc = "done"
    /\ pdf.pymupdf = "raises"
    /\ pdf.pypdf = "missing"
    /\ pdf.ocr = "raises"
    /\ calls = <<"pymupdf", "pypdf", "ocr">>
    /\ extracted = Some(EmptyText)

\* C6 (as claimed): if a strategy invoked during the call returned non-empty
\* text, the call returns non-empty text.
C6_BestTextKept ==
    (epc = "done" /\ SomeTextProduced) => Truthy(extracted[1])

\* --- the order of the strategies ---

IsPrefix(s, t) == Len(s) <= Len(t) /\ s = SubSeq(t, 1, Len(s))

\* The text passes the gate: it is non-blank and not gibberish.
PassesGate(t) == Stripped(t) /\ ~is_gibberish(t)

\* A strategy invoked during the call produced a text that passes the gate;
\* then the call has returned that text.
ReturnsAtFirstPass ==
    \A t \in produced : PassesGate(t) => (epc = "done" /\ extracted = Some(t))

\* C20 as stated: the strategies are attempted in the fixed order primary
\* native, secondary native, OCR, so OCR is never invoked before the
\* secondary native extractor has been attempted; and no strategy is invoked
\* after one has produced text that passes the gate.
C20_FixedOrder ==
    /\ IsPrefix(calls, <<"pymupdf", "pypdf", "ocr">>)
    /\ ReturnsAtFirstPass

\* C20 amended: the primary native extractor is attempted first; when its
\* text is non-blank and fails the gate, OCR is invoked at once, before the
\* secondary native extractor, and only then; the secondary native extractor
\* and OCR follow.  No strategy is invoked after one has produced text that
\* passes the gate.
C20_OrderWithEarlyOcr ==
    /\ IF Stripped(_extract_text_pymupdf(pdf).text) /\ is_gibberish(_extract_text_pymupdf(pdf).text)
       THEN IsPrefix(calls, <<"pymupdf", "ocr", "pypdf", "ocr">>)
       ELSE IsPrefix(calls, <<"pymupdf", "pypdf", "ocr">>)
    /\ ReturnsAtFirstPass

C20_Witness ==
    /\ epc = "done"
    /\ pdf.pymupdf = "gibberish"
    /\ pdf.ocr = "good"
    /\ calls = <<"pymupdf", "ocr">>
    /\ extracted = Some(LibraryText("ocr", "good"))

\* --- no retry ---

\* How many times the strategy was invoked during the call.
Invocations(name) == Cardinality({k \in 1..Len(calls) : calls[k] = name})

\* C21: within one call there is no retry: each strategy (primary native,
\* secondary native, OCR) is invoked at most once, whatever the strategies
\* meet in the document.
C21_InvokedAtMostOnce ==
    \A name \in {"pymupdf", "pypdf", "ocr"} : Invocations(name) <= 1

\* ------------------------------------------------------------------------
\* Documents as text
\* ------------------------------------------------------------------------

\* A text is the sequence of its physical lines (text.split('\n')); the empty
\* string is the single empty line.  Every regular expression of the code is
\* held as the set of lines of the vocabulary it matches; no expression of the
\* classifier matches across a line break of these lines, except the two
\* DOTALL ones, which are followed line by line.

TheEmptyString == <<"">>

\* not text
IsEmptyString(t) == t = TheEmptyString

\* Some line of t is in the set ls (re.search of a one-line pattern).
Found(ls, t) == \E k \in 1..Len(t) : t[k] \in ls

\* Lines of sets a, b, c occur in t on three lines in this order
\* (re.search of "a.*b.*c" with re.DOTALL, each line holding one keyword).
FoundInOrder(a, b, c, t) ==
    \E x \in 1..Len(t), y \in 1..Len(t), z \in 1..Len(t) :
        x < y /\ y < z /\ t[x] \in a /\ t[y] \in b /\ t[z] \in c

NonEmptySeqsUpTo(S, n) == SeqsUpTo(S, n) \ {<<>>}

\* ------------------------------------------------------------------------
\* Quote type classifier: determine_quote_type
\* ------------------------------------------------------------------------

\* supplier_indicators, each pattern as the lines it is found in, among the
\* lines of ClassifierVocabulary and of ParseVocabulary.
supplier_indicators ==
    << {},                    \* supplier|vendor|invoice\s+from|quote\s+from
       {"payment terms"},     \* remit\s+to|payment\s+terms|pay\s+within|net\s+\d+\s+days
       {},                    \* account\s+number|sort\s+code|bank\s+details
       {"Order Number 7"},    \* order\s+number|purchase\s+order
       {},                    \* quote\s+reference.*[A-Z]{2,}\d+
       {},                    \* supplies?\s+ltd|materials?\s+ltd|joinery\s+supplies
       {} >>                  \* terms:.*net|payment.*due

\* client_indicators, each pattern as the lines it is found in.
client_indicators ==
    << {"ESTIMATE"},          \* ESTIMATE|QUOTATION|PROPOSAL
       {},                    \* Reference\s*[A-Za-z0-9]+.*Estimate\s+Number
       {},                    \* Date\s+of\s+Estimate|Validity\s*\d+\s+days
       {"Dear Mr Smith"},     \* dear\s+(?:mr|mrs|ms|miss)
       {},                    \* thank\s+you\s+for\s+your\s+enquiry
       {},                    \* we\s+are\s+pleased\s+to\s+quote
       {},                    \* project\s+requirements|questionnaire
       {},                    \* terms\s+and\s+conditions\s+apply
       {},                    \* VAT\s+@\s+\d+%.*Total
       {"Item Description Number Width Height"},
       {"Specialists in Joinery"} >>   \* specialists\s+in.*joinery

\* The keywords of the strong indicators, each as the lines holding it.
StrongIndicators ==
    [ \* ESTIMATE.*Reference.*Windows
      HasEstimate |-> {"ESTIMATE"},
      HasReference |-> {"Reference AB1"},
      HasWindows |-> {"Windows"},
      \* Specialists in.*Joinery
      HasSpecialistsInJoinery |-> {"Specialists in Joinery"},
      \* Item.*Description.*Qty.*Unit.*Price
      HasSupplierTableHeader |-> {"Item Description Qty Unit Price"},
      \* Subtotal.*VAT.*Total
      HasSubtotal |-> {"Subtotal"},
      HasVat |-> {"VAT"},
      HasTotal |-> {"Subtotal", "Total £500.00", "Grand Total: £650.00",
                    "Total investment £90.00", "Total £0.00"} ]

\* The number of patterns of the list that are found in t.
MatchCount(indicators, t) ==
    Cardinality({n \in 1..Len(indicators) : Found(indicators[n], t)})

\* Bonus of the strong client indicators.
ClientBonusEstimate == 3

ClientBonusSpecialists == 2

\* Bonus of the strong supplier indicators.
SupplierBonusTableHeader == 2

SupplierBonusTotals == 1

\* supplier_score at the decision.
SupplierScore(t) ==
    LET s == StrongIndicators
    IN  MatchCount(supplier_indicators, t)
        + (IF Found(s.HasSupplierTableHeader, t) THEN SupplierBonusTableHeader ELSE 0)
        + (IF FoundInOrder(s.HasSubtotal, s.HasVat, s.HasTotal, t)
           THEN SupplierBonusTotals ELSE 0)

\* client_score at the decision.
ClientScore(t) ==
    LET s == StrongIndicators
    IN  MatchCount(client_indicators, t)
        + (IF FoundInOrder(s.HasEstimate, s.HasReference, s.HasWindows, t)
           THEN ClientBonusEstimate ELSE 0)
        + (IF Found(s.HasSpecialistsInJoinery, t) THEN ClientBonusSpecialists ELSE 0)

\* A mutant of Decide: a tie goes to the supplier.
DecideTieSupplier(s_score, c_score) ==
    IF c_score > s_score THEN "client" ELSE "supplier"

\* The final if/elif/else of determine_quote_type.
Decide(s_score, c_score) ==
    IF c_score > s_score THEN "client"
    ELSE IF s_score > c_score THEN "supplier"
    ELSE "unknown"

\* determine_quote_type(text)
determine_quote_type(t) ==
    IF IsEmptyString(t) THEN "unknown" ELSE Decide(SupplierScore(t), ClientScore(t))

\* Longest text handed to the classifier, in lines.
MaxClassifyLines == 3

ClassifierVocabulary ==
    {"", "payment terms", "Order Number 7", "ESTIMATE", "Reference AB1", "Windows",
     "Specialists in Joinery", "Item Description Qty Unit Price", "Subtotal", "VAT",
     "Total £500.00", "Dear Mr Smith"}

ClassifyIdle ==
    /\ cpc = "idle"
    /\ ctext = TheEmptyString
    /\ supplier_score = 0
    /\ client_score = 0
    /\ quote_type = None

\* determine_quote_type(text) runs on some text.
Classify ==
    /\ cpc = "idle"
    /\ \E t \in NonEmptySeqsUpTo(ClassifierVocabulary, MaxClassifyLines) :
          /\ ctext' = t
          /\ supplier_score' = IF IsEmptyString(t) THEN 0 ELSE SupplierScore(t)
          /\ client_score' = IF IsEmptyString(t) THEN 0 ELSE ClientScore(t)
          /\ quote_type' = Some(determine_quote_type(t))
    /\ cpc' = "classified"
    /\ UNCHANGED <<bvars, evars, pvars, qvars, lvars, kvars, gvars, fvars, hvars, dvars>>

\* The caller has the category.
ClassifyReturn ==
    /\ cpc = "classified"
    /\ cpc' = "idle"
    /\ ctext' = TheEmptyString
    /\ supplier_score' = 0
    /\ client_score' = 0
    /\ quote_type' = None
    /\ UNCHANGED <<bvars, evars, pvars, qvars, lvars, kvars, gvars, fvars, hvars, dvars>>

\* ------------------------------------------------------------------------
\* Properties of the classifier (checked under SpecClassify)
\* ------------------------------------------------------------------------

\* C7: the classifier returns exactly one of supplier, client, unknown:
\* client iff client_score > supplier_score, supplier iff supplier_score >
\* client_score, unknown iff the scores are equal, which covers a text with
\* no match in either indicator set and the empty text.
C7_Classifier ==
    cpc = "classified" =>
        /\ ~IsNone(quote_type)
        /\ quote_type[1] \in {"supplier", "client", "unknown"}
        /\ (quote_type[1] = "client" <=> client_score > supplier_score)
        /\ (quote_type[1] = "supplier" <=> supplier_score > client_score)
        /\ (quote_type[1] = "unknown" <=> supplier_score = client_score)
        /\ (IsEmptyString(ctext) => quote_type[1] = "unknown")

\* A tie of two non-zero scores.
C7_Witness ==
    /\ cpc = "classified"
    /\ supplier_score = client_score
    /\ supplier_score > 0
    /\ quote_type = Some("unknown")

\* ------------------------------------------------------------------------
\* Supplier quote parser: parse_quote_lines_from_text
\* ------------------------------------------------------------------------

\* A line item.  The description is held as its parts (the code joins them
\* with a blank); qty is a whole number; total is in hundredths; unit_price
\* is the exact quotient num/den of hundredths, since the free-form pass
\* divides a price by a quantity.
Item(description, qty, unit_price, total) ==
    [description |-> description, qty |-> qty, unit_price |-> unit_price, total |-> total]

Exactly(v) == [num |-> v, den |-> 1]

\* unit_price = price / qty if qty > 0 else price
Per(price, qty) == IF qty > 0 THEN [num |-> price, den |-> qty] ELSE Exactly(price)

\* A piece of description, nothing when it is empty.
Words(s) == IF s = "" THEN <<>> ELSE <<s>>

\* while j < len(text_lines) and not text_lines[j].strip(): j += 1
RECURSIVE NextNonBlank(_, _)
NextNonBlank(t, j) ==
    IF j <= Len(t) /\ t[j] = "" THEN NextNonBlank(t, j + 1) ELSE j

\* --- Line tables --------------------------------------------------------

\* Each regular expression of the parser is held as the set of vocabulary
\* lines it matches, or as the function from those lines to the groups the
\* code reads from the match.

\* The physical lines the documents of the model are made of (each already
\* stripped: line.strip() leaves it alone).
ParseVocabulary ==
    {"", "Door", "1", "£100.00", "£0.00", "100.00", "pcs", "Delivery",
     "880mm", "Oak door 2 £10.00 £20.00", "Subtotal", "Total £500.00",
     "Grand Total: £650.00", "Description", "TYPE", "C", "22 07 2025",
     "The quote is valid", "5.09m2", "FENSTERCRAFT", "Reference AB1",
     "1. Type: Sash window", "(to site)", "FDX1", "2. Wood: Oak",
     "View from outside", "valid for 30 days", "www.example.com",
     "1. Oak door 2 £10.00 £20.00", "Oak frame 2 15.00",
     "Brass handle £12.50", "2 x Hinge @ £3.00", "Carriage shipping £25.00",
     "ab 2 £1.00 £2.00", "30.00 1 30.00", "9 1 9", "VAT",
     "Balance due 40.00", "Total investment £90.00",
     "Item Description Number Width Height", "Sliding Sash Window",
     "2 900mm 1200mm", "1 10mm 10mm", "Total £0.00"}

\* The patterns of the first pass (pdf_parser.py:238-470).  Each field is one pattern, named in the comment before it.
PassATable ==
    [
      \* ^\d{1,2}\s+\d{1,2}\s+\d{4}$ (a date)
      ReDate |-> {"22 07 2025"},
      \* ^(Detailed Quotation|Ref|Description)$
      ReSectionOn |-> {"Description"},
      \* ^(Subtotal|VAT|Total Investment|...|Contact Information)$
      ReSectionOff |-> {"Subtotal", "VAT"},
      \* ^(Price,?\s*GBP|pcs|Total,?\s*GBP|Quantity|...|Line Total), a prefix
      ReHeader |-> {"pcs", "Description", "Item Description Number Width Height"},
      \* ^(Price,?\s*GBP|pcs|Total,?\s*GBP)$
      ReLangvaldaHeader |-> {"pcs"},
      \* ^(Item|Description|Qty|Unit|Cost), a prefix
      ReHeaderReset |-> {"Description", "Item Description Number Width Height"},
      \* ^\d+x\d+mm or ^\d+mm$
      ReDimension |-> {"880mm"},
      \* ^(LANGVALDA /|TOTAL INVOICE|The quote is valid)
      ReContextReset |-> {"The quote is valid"},
      \* ^\d+(?:\.\d+)?m[²2]$
      ReArea |-> {"5.09m2"},
      \* ^TYPE\s*$
      ReTypeWord |-> {"TYPE"},
      \* ^[A-Z0-9]{1,3}$ (case sensitive)
      ReTypeCode |-> {"1", "C", "VAT"},
      \* ^[£$€]\s*(\d+(?:,\d{3})*\.\d{2})$ with float(group 1), in hundredths
      CurrencyPrice |->
          (("£100.00" :> 10000)
          @@ ("£0.00" :> 0)),
      \* ^\d+$ with float(line)
      StandaloneNumber |-> ("1" :> 1),
      \* ^(\d+(?:,\d{3})*\.\d{2})$ with float(group 1), in hundredths
      BarePrice |-> ("100.00" :> 10000),
      \* ^(\d+(?:\.\d+)?)\s*(?:pc\.?|pcs\.?)?$ with float(group 1)
      QtyLine |->
          (("1" :> 1)
          @@ ("100.00" :> 100)),
      \* [a-zA-Z]{3,}
      ReLetters |->
          {"Door", "pcs", "Delivery", "Oak door 2 £10.00 £20.00", "Subtotal",
          "Total £500.00", "Grand Total: £650.00", "Description", "TYPE",
          "The quote is valid", "FENSTERCRAFT", "Reference AB1",
          "1. Type: Sash window", "(to site)", "FDX1", "2. Wood: Oak",
          "View from outside", "valid for 30 days", "www.example.com",
          "1. Oak door 2 £10.00 £20.00", "Oak frame 2 15.00",
          "Brass handle £12.50", "2 x Hinge @ £3.00", "Carriage shipping £25.00",
          "VAT", "Balance due 40.00", "Total investment £90.00",
          "Item Description Number Width Height", "Sliding Sash Window",
          "Total £0.00"},
      \* (FENSTERCRAFT|Popieriaus|langvalda|GROUP|^JMS\s+\d|Wealden Joinery)
      ReCompany |-> {"FENSTERCRAFT"},
      \* Offer #|Reference|Brought Forward|...|QUOTATION
      ReReferenceLine |-> {"Reference AB1"},
      \* ^\d+\.\s*Type:\s*(.+)$ with group(1).strip()
      TypeText |-> ("1. Type: Sash window" :> "Sash window"),
      \* ^(Screen|Door|Window|Frame)\s*[-\s]*(\(TYPE\s+[A-Z0-9]+\))?
      ReProduct |-> {"Door"},
      \* ^Delivery|^Shipping
      ReDeliveryStart |-> {"Delivery"},
      \* ^[\(\[]
      ReContinuation |-> {"(to site)"},
      \* ^[A-Z]{2,}\d+$
      ReProductCode |-> {"FDX1"},
      \* ^\d+\.\s*(Type:|Wood:|Finish:|Glass:|Fittings:|Water|sealing:)
      ReNumberedSpec |-> {"1. Type: Sash window", "2. Wood: Oak"},
      \* ^(View from|edge |double cylinder)
      ReViewFrom |-> {"View from outside"},
      \* (valid for|excl\. VAT|unloading|...|Line Total|Ref)
      ReTerms |-> {"Reference AB1", "valid for 30 days"},
      \* (\+\d{3}|www\.|@|Tel\.|Email|Telephone:|Phone:|Address:)
      ReContact |-> {"www.example.com", "2 x Hinge @ £3.00"},
      \* delivery, anywhere in a part of the pending description
      ReMentionsDelivery |-> {"Delivery"} ]

\* --- First pass: one value per line -------------------------------------

\* The locals of the first pass.
PassAState(idx, pd, specs, in_q, seen, ls) ==
    [i |-> idx, pending_description |-> pd, pending_specs |-> specs,
     in_quotation_section |-> in_q, seen_langvalda_header |-> seen, lines |-> ls]

PassAStart == PassAState(1, <<>>, <<>>, FALSE, FALSE, <<>>)

Advance(st, n) == [st EXCEPT !.i = @ + n]

ResetPending(st) == [st EXCEPT !.pending_description = <<>>, !.pending_specs = <<>>]

WithSpec(st, line) == [st EXCEPT !.pending_specs = Append(@, line)]

\* pending_description or pending_specs
Described(st) == st.pending_description # <<>> \/ st.pending_specs # <<>>

\* description_parts of an item found in the first pass
DescriptionParts(st) == st.pending_description \o st.pending_specs

\* A mutant of Emit: the cursor is left on the line the jump should pass.
EmitStaysOnTotal(st, next_i, it) ==
    [ResetPending(st) EXCEPT !.i = next_i - 1, !.lines = Append(@, it)]

\* lines.append(...), reset of the pending values and the jump to next_i
Emit(st, next_i, it) ==
    [ResetPending(st) EXCEPT !.i = next_i, !.lines = Append(@, it)]

\* The section toggles, which do not end the iteration.
Toggled(line, st) ==
    [st EXCEPT !.in_quotation_section =
        IF line \in PassATable.ReSectionOff THEN FALSE
        ELSE IF line \in PassATable.ReSectionOn THEN TRUE ELSE @]

\* A header line that never resets the pending values.
HeaderLineKeepsPending(line, st) ==
    [st EXCEPT !.seen_langvalda_header =
        IF line \in PassATable.ReLangvaldaHeader THEN TRUE ELSE @]

\* A header line: it may open the table context and reset the pending values.
HeaderLine(line, st) ==
    LET seen == [st EXCEPT !.seen_langvalda_header =
                    IF line \in PassATable.ReLangvaldaHeader THEN TRUE ELSE @]
    IN  IF line \in PassATable.ReHeaderReset THEN ResetPending(seen) ELSE seen

\* The context reset, which does not end the iteration.
ContextReset(line, st) ==
    [st EXCEPT !.seen_langvalda_header = IF line \in PassATable.ReContextReset THEN FALSE ELSE @]

\* "TYPE" followed by a code on the next line, inside the quotation section.
TypeCodeFollows(t, st) ==
    /\ st.in_quotation_section
    /\ t[st.i] \in PassATable.ReTypeWord
    /\ st.i + 1 <= Len(t)
    /\ t[st.i + 1] \in PassATable.ReTypeCode

\* The quantity looked for in the five lines before line idx: the first
\* standalone number from the farthest line on.
QtyBefore(t, idx) ==
    LET back == {b \in Max(1, idx - 5)..(idx - 1) : t[b] \in DOMAIN PassATable.StandaloneNumber}
    IN  IF back = {} THEN None
        ELSE Some(PassATable.StandaloneNumber[t[CHOOSE b \in back : \A c \in back : b <= c]])

\* A unit price with a currency symbol: the state after the item it
\* completes, or None when the iteration goes on to the next checks.
CurrencyItem(t, st) ==
    LET line == t[st.i]
        pd == st.pending_description
    IN  IF ~(line \in DOMAIN PassATable.CurrencyPrice /\ Described(st)) THEN None
        ELSE LET unit_price == PassATable.CurrencyPrice[line]
                 qty == QtyBefore(t, st.i)
                 j == NextNonBlank(t, st.i + 1)
             IN  IF /\ j <= Len(t)
                    /\ t[j] \in DOMAIN PassATable.CurrencyPrice
                    /\ qty # None
                    /\ qty[1] # 0
                    /\ (st.in_quotation_section \/ st.seen_langvalda_header \/ pd # <<>>)
                 THEN Some(Emit(st, j + 1,
                        Item(DescriptionParts(st), qty[1], Exactly(unit_price),
                             PassATable.CurrencyPrice[t[j]])))
                 ELSE IF /\ pd # <<>>
                         /\ \E k \in 1..Len(pd) : pd[k] \in PassATable.ReMentionsDelivery
                         /\ (st.in_quotation_section \/ pd # <<>>)
                      THEN Some(Emit(st, st.i + 1,
                             Item(DescriptionParts(st), 1, Exactly(unit_price), unit_price)))
                      ELSE None

\* A bare unit price followed by a quantity line and a total line.
BareItem(t, st) ==
    LET line == t[st.i]
    IN  IF ~(/\ line \in DOMAIN PassATable.BarePrice
             /\ Described(st)
             /\ (st.in_quotation_section \/ st.seen_langvalda_header))
        THEN None
        ELSE LET j == NextNonBlank(t, st.i + 1)
             IN  IF ~(j <= Len(t) /\ t[j] \in DOMAIN PassATable.QtyLine) THEN None
                 ELSE LET k == NextNonBlank(t, j + 1)
                      IN  IF ~(k <= Len(t) /\ t[k] \in DOMAIN PassATable.BarePrice) THEN None
                          ELSE Some(Emit(st, k + 1,
                                 Item(DescriptionParts(st), PassATable.QtyLine[t[j]],
                                      Exactly(PassATable.BarePrice[line]), PassATable.BarePrice[t[k]])))

\* The description checks that end an iteration.
DescriptionLine(t, st) ==
    LET line == t[st.i]
        free == st.pending_description = <<>>
    IN  IF line \notin PassATable.ReLetters THEN Advance(st, 1)
        ELSE IF line \in PassATable.ReCompany THEN Advance(st, 1)
        ELSE IF line \in PassATable.ReReferenceLine THEN Advance(ResetPending(st), 1)
        ELSE IF line \in DOMAIN PassATable.TypeText /\ free
             THEN Advance([st EXCEPT !.pending_description = <<PassATable.TypeText[line]>>], 1)
        ELSE IF line \in PassATable.ReProduct /\ free
             THEN Advance([st EXCEPT !.pending_description = <<line>>], 1)
        ELSE IF line \in PassATable.ReDeliveryStart
             THEN IF /\ st.i + 1 <= Len(t)
                     /\ t[st.i + 1] # ""
                     /\ t[st.i + 1] \in PassATable.ReContinuation
                  THEN Advance([st EXCEPT !.pending_description = <<line, t[st.i + 1]>>], 2)
                  ELSE Advance([st EXCEPT !.pending_description = <<line>>], 1)
        ELSE IF /\ free
                /\ \/ line \in PassATable.ReProductCode
                   \/ /\ line \notin PassATable.ReNumberedSpec
                      /\ line \notin PassATable.ReViewFrom
                      /\ line \notin PassATable.ReTerms
                      /\ line \notin PassATable.ReContact
             THEN Advance([st EXCEPT !.pending_description = <<line>>], 1)
        ELSE Advance(st, 1)

\* One iteration of the while loop of the first pass.
PassAStep(t, st) ==
    LET line == t[st.i]
        toggled == Toggled(line, st)
        context == ContextReset(line, toggled)
    IN  IF line = "" THEN Advance(st, 1)
        ELSE IF line \in PassATable.ReDate THEN Advance(st, 1)
        ELSE IF line \in PassATable.ReHeader THEN Advance(HeaderLine(line, toggled), 1)
        ELSE IF line \in PassATable.ReDimension THEN Advance(WithSpec(toggled, line), 1)
        ELSE IF line \in PassATable.ReArea THEN Advance(WithSpec(context, line), 1)
        ELSE IF TypeCodeFollows(t, context)
             THEN Advance([context EXCEPT !.pending_description = <<"TYPE", t[st.i + 1]>>], 2)
        ELSE IF CurrencyItem(t, context) # None THEN CurrencyItem(t, context)[1]
        ELSE IF BareItem(t, context) # None THEN BareItem(t, context)[1]
        ELSE DescriptionLine(t, context)

\* The first pass run to its end.
RECURSIVE PassAFrom(_, _)
PassAFrom(t, st) == IF st.i > Len(t) THEN st ELSE PassAFrom(t, PassAStep(t, st))

PassA(t) == PassAFrom(t, PassAStart).lines

\* The patterns of the second pass (pdf_parser.py:207-220 and 473-538).  Each field is one pattern, named in the comment before it.
PassBTable ==
    [
      \* len(line) < 10
      ShortLine |->
          {"", "Door", "1", "£100.00", "£0.00", "100.00", "pcs", "Delivery",
          "880mm", "Subtotal", "TYPE", "C", "5.09m2", "(to site)", "FDX1",
          "9 1 9", "VAT"},
      \* any of the five skip_patterns (header and footer words, a lone amount)
      ReSkip |->
          {"£100.00", "£0.00", "Delivery", "Subtotal", "Total £500.00",
          "Grand Total: £650.00", "Description", "VAT", "Balance due 40.00",
          "Total investment £90.00", "Item Description Number Width Height",
          "Total £0.00"},
      \* table_patterns: the groups read from the first pattern that matches the
      \* line; the numbers-only pattern (index 2) moves on to the next pattern.
      \* qty and total are None where the pattern has no such group.
      TableRow |->
          (("Oak door 2 £10.00 £20.00" :> [pattern |-> 1, description |-> "Oak door", qty |-> Some(2), unit_price |-> 1000, total |-> Some(2000)])
          @@ ("Total £500.00" :> [pattern |-> 4, description |-> "Total", qty |-> None, unit_price |-> 50000, total |-> None])
          @@ ("Grand Total: £650.00" :> [pattern |-> 4, description |-> "Grand Total:", qty |-> None, unit_price |-> 65000, total |-> None])
          @@ ("1. Oak door 2 £10.00 £20.00" :> [pattern |-> 0, description |-> "Oak door", qty |-> Some(2), unit_price |-> 1000, total |-> Some(2000)])
          @@ ("Oak frame 2 15.00" :> [pattern |-> 3, description |-> "Oak frame", qty |-> Some(2), unit_price |-> 1500, total |-> None])
          @@ ("Brass handle £12.50" :> [pattern |-> 4, description |-> "Brass handle", qty |-> None, unit_price |-> 1250, total |-> None])
          @@ ("2 x Hinge @ £3.00" :> [pattern |-> 4, description |-> "2 x Hinge @", qty |-> None, unit_price |-> 300, total |-> None])
          @@ ("Carriage shipping £25.00" :> [pattern |-> 4, description |-> "Carriage shipping", qty |-> None, unit_price |-> 2500, total |-> None])
          @@ ("ab 2 £1.00 £2.00" :> [pattern |-> 1, description |-> "ab", qty |-> Some(2), unit_price |-> 100, total |-> Some(200)])
          @@ ("30.00 1 30.00" :> [pattern |-> 3, description |-> "30.00", qty |-> Some(1), unit_price |-> 3000, total |-> None])
          @@ ("Total investment £90.00" :> [pattern |-> 4, description |-> "Total investment", qty |-> None, unit_price |-> 9000, total |-> None])
          @@ ("Total £0.00" :> [pattern |-> 4, description |-> "Total", qty |-> None, unit_price |-> 0, total |-> None])),
      \* descriptions holding one of the skip_keywords
      HasSkipKeyword |->
          {"Carriage shipping", "Grand Total:", "Total", "Total investment"},
      \* len(description) <= 3
      ShortDescription |-> {"ab"} ]

\* --- Second pass: a whole item on one line ------------------------------

\* The item a line gives in the second pass, if any.
TableItem(line) ==
    IF line = "" \/ line \in PassBTable.ShortLine \/ line \in PassBTable.ReSkip \/ line \notin DOMAIN PassBTable.TableRow
    THEN <<>>
    ELSE LET r == PassBTable.TableRow[line]
             qty == IF r.qty = None THEN 1 ELSE r.qty[1]
             total == IF r.total = None THEN qty * r.unit_price ELSE r.total[1]
         IN  IF r.description \in PassBTable.HasSkipKeyword \/ r.description \in PassBTable.ShortDescription
             THEN <<>>
             ELSE <<Item(<<r.description>>, qty, Exactly(r.unit_price), total)>>

RECURSIVE TableItems(_, _)
TableItems(t, k) ==
    IF k > Len(t) THEN <<>> ELSE TableItem(t[k]) \o TableItems(t, k + 1)

\* The second pass scans every line of the text again and appends.
PassB(t, ls) == ls \o TableItems(t, 1)

\* The patterns of the third pass (pdf_parser.py:541-589).  Each field is one pattern, named in the comment before it.
PassCTable ==
    [
      \* delivery|shipping, anywhere in the line
      ReDeliveryOrShipping |-> {"Delivery", "Carriage shipping £25.00"},
      \* (\d+(?:,\d{3})*(?:\.\d{2})?)\s+(\d+)\s*(?:pc|pcs)?\.?\s+(\d+...) at the start
      DeliveryRow |->
          (("22 07 2025" :> [unit_price |-> 2200, qty |-> 7, total |-> 202500])
          @@ ("30.00 1 30.00" :> [unit_price |-> 3000, qty |-> 1, total |-> 3000])
          @@ ("9 1 9" :> [unit_price |-> 900, qty |-> 1, total |-> 900])),
      \* lines of letters and white space only ([A-Za-z\s]*), the blank line included
      LettersOnly |->
          {"", "Door", "pcs", "Delivery", "Subtotal", "Description", "TYPE", "C",
          "The quote is valid", "FENSTERCRAFT", "View from outside", "VAT",
          "Item Description Number Width Height", "Sliding Sash Window"},
      \* the letters that end a line, after its last other character
      LetterTail |->
          (("880mm" :> "mm")
          @@ ("1. Type: Sash window" :> "Sash window")
          @@ ("2. Wood: Oak" :> "Oak")
          @@ ("valid for 30 days" :> "days")
          @@ ("www.example.com" :> "com")
          @@ ("2 900mm 1200mm" :> "mm")
          @@ ("1 10mm 10mm" :> "mm")),
      \* lines that open with [£$€]\s*(amount), with the amount
      AmountLed |->
          (("£100.00" :> 10000)
          @@ ("£0.00" :> 0)),
      \* first item pattern, ending on the keyword's own line: the description from
      \* where the letters before the keyword begin, whether they begin the line
      \* (joins), whether a letter or space of the line precedes the keyword (own),
      \* the first number of the description and the amount
      KeywordItem |->
          (("Oak door 2 £10.00 £20.00" :> [description |-> "Oak door 2", joins |-> TRUE, own |-> TRUE, qty |-> Some(2), total |-> 1000])
          @@ ("1. Oak door 2 £10.00 £20.00" :> [description |-> "Oak door 2", joins |-> FALSE, own |-> TRUE, qty |-> Some(2), total |-> 1000])
          @@ ("Brass handle £12.50" :> [description |-> "Brass handle", joins |-> TRUE, own |-> TRUE, qty |-> None, total |-> 1250])),
      \* first item pattern, keyword line with no amount after the keyword
      KeywordOpen |->
          (("Door" :> [description |-> "Door", joins |-> TRUE, own |-> FALSE, qty |-> None])
          @@ ("1. Type: Sash window" :> [description |-> "Sash window", joins |-> FALSE, own |-> TRUE, qty |-> None])
          @@ ("Oak frame 2 15.00" :> [description |-> "Oak frame 2 15.00", joins |-> TRUE, own |-> TRUE, qty |-> Some(2)])
          @@ ("Sliding Sash Window" :> [description |-> "Sliding Sash Window", joins |-> TRUE, own |-> TRUE, qty |-> None])),
      \* second item pattern: the digits that end a line but for letters (qty), the
      \* letters after them once `^\d+\s*x?\s*` is removed (words), and whether any
      \* letter or space follows the digits (gap)
      TailQty |->
          (("1" :> [qty |-> 1, words |-> "", gap |-> FALSE])
          @@ ("£100.00" :> [qty |-> 0, words |-> "", gap |-> FALSE])
          @@ ("£0.00" :> [qty |-> 0, words |-> "", gap |-> FALSE])
          @@ ("100.00" :> [qty |-> 0, words |-> "", gap |-> FALSE])
          @@ ("880mm" :> [qty |-> 880, words |-> "mm", gap |-> TRUE])
          @@ ("Oak door 2 £10.00 £20.00" :> [qty |-> 0, words |-> "", gap |-> FALSE])
          @@ ("Total £500.00" :> [qty |-> 0, words |-> "", gap |-> FALSE])
          @@ ("Grand Total: £650.00" :> [qty |-> 0, words |-> "", gap |-> FALSE])
          @@ ("22 07 2025" :> [qty |-> 2025, words |-> "", gap |-> FALSE])
          @@ ("5.09m2" :> [qty |-> 2, words |-> "", gap |-> FALSE])
          @@ ("Reference AB1" :> [qty |-> 1, words |-> "", gap |-> FALSE])
          @@ ("FDX1" :> [qty |-> 1, words |-> "", gap |-> FALSE])
          @@ ("valid for 30 days" :> [qty |-> 30, words |-> "days", gap |-> TRUE])
          @@ ("1. Oak door 2 £10.00 £20.00" :> [qty |-> 0, words |-> "", gap |-> FALSE])
          @@ ("Oak frame 2 15.00" :> [qty |-> 0, words |-> "", gap |-> FALSE])
          @@ ("Brass handle £12.50" :> [qty |-> 50, words |-> "", gap |-> FALSE])
          @@ ("2 x Hinge @ £3.00" :> [qty |-> 0, words |-> "", gap |-> FALSE])
          @@ ("Carriage shipping £25.00" :> [qty |-> 0, words |-> "", gap |-> FALSE])
          @@ ("ab 2 £1.00 £2.00" :> [qty |-> 0, words |-> "", gap |-> FALSE])
          @@ ("30.00 1 30.00" :> [qty |-> 0, words |-> "", gap |-> FALSE])
          @@ ("9 1 9" :> [qty |-> 9, words |-> "", gap |-> FALSE])
          @@ ("Balance due 40.00" :> [qty |-> 0, words |-> "", gap |-> FALSE])
          @@ ("Total investment £90.00" :> [qty |-> 0, words |-> "", gap |-> FALSE])
          @@ ("2 900mm 1200mm" :> [qty |-> 1200, words |-> "mm", gap |-> TRUE])
          @@ ("1 10mm 10mm" :> [qty |-> 10, words |-> "mm", gap |-> TRUE])
          @@ ("Total £0.00" :> [qty |-> 0, words |-> "", gap |-> FALSE])),
      \* second item pattern: lines made of letters and white space, then
      \* [£$€]\s*(amount)
      AmountAfterWords |->
          (("£100.00" :> [words |-> "", total |-> 10000])
          @@ ("£0.00" :> [words |-> "", total |-> 0])
          @@ ("Total £500.00" :> [words |-> "Total", total |-> 50000])
          @@ ("Brass handle £12.50" :> [words |-> "Brass handle", total |-> 1250])
          @@ ("Carriage shipping £25.00" :> [words |-> "Carriage shipping", total |-> 2500])
          @@ ("Total investment £90.00" :> [words |-> "Total investment", total |-> 9000])
          @@ ("Total £0.00" :> [words |-> "Total", total |-> 0])) ]

\* The patterns of the labelled totals (pdf_parser.py:592-611).  Each field is one pattern, named in the comment before it.
TotalsTable ==
    [
      \* total_patterns, numbered in order (grand\s+total, total\s*(?:due|amount)?, balance\s*due,
      \* sub.*total, total\s+invoice, total\s+investment): the number each
      \* finds within a line, in hundredths
      TotalOnLine |->
          {[pattern |-> 1, line |-> "Grand Total: £650.00", value |-> 65000],
          [pattern |-> 2, line |-> "Total £500.00", value |-> 50000],
          [pattern |-> 2, line |-> "Grand Total: £650.00", value |-> 65000],
          [pattern |-> 2, line |-> "Total £0.00", value |-> 0],
          [pattern |-> 3, line |-> "Balance due 40.00", value |-> 4000],
          [pattern |-> 6, line |-> "Total investment £90.00", value |-> 9000]},
      \* total_patterns, in order: the lines that end with the label, its number missing
      TotalLabelEnds |-> <<{}, {"Subtotal"}, {}, {"Subtotal"}, {}, {}>>,
      \* \s*[:\-]?\s*[£$€]?\s*(\d[\d,]*\.?\d*) at the start of a line, in hundredths
      LeadingNumber |->
          (("1" :> 100)
          @@ ("£100.00" :> 10000)
          @@ ("£0.00" :> 0)
          @@ ("100.00" :> 10000)
          @@ ("880mm" :> 88000)
          @@ ("22 07 2025" :> 2200)
          @@ ("5.09m2" :> 509)
          @@ ("1. Type: Sash window" :> 100)
          @@ ("2. Wood: Oak" :> 200)
          @@ ("1. Oak door 2 £10.00 £20.00" :> 100)
          @@ ("2 x Hinge @ £3.00" :> 200)
          @@ ("30.00 1 30.00" :> 3000)
          @@ ("9 1 9" :> 900)
          @@ ("2 900mm 1200mm" :> 200)
          @@ ("1 10mm 10mm" :> 100)) ]

\* (£|\$|€), the first symbol of the line
ReCurrencySymbol ==
    ("£100.00" :> "£")
    @@ ("£0.00" :> "£")
    @@ ("Oak door 2 £10.00 £20.00" :> "£")
    @@ ("Total £500.00" :> "£")
    @@ ("Grand Total: £650.00" :> "£")
    @@ ("1. Oak door 2 £10.00 £20.00" :> "£")
    @@ ("Brass handle £12.50" :> "£")
    @@ ("2 x Hinge @ £3.00" :> "£")
    @@ ("Carriage shipping £25.00" :> "£")
    @@ ("ab 2 £1.00 £2.00" :> "£")
    @@ ("Total investment £90.00" :> "£")
    @@ ("Total £0.00" :> "£")

\* documents in the layouts the parser is written for
SampleDocuments ==
    {<<"pcs", "880mm", "5.09m2", "100.00", "", "1", "100.00">>,
     <<"Description", "TYPE", "C", "1", "£100.00", "£100.00", "Delivery", "(to site)", "£100.00", "Subtotal", "Total £500.00">>,
     <<"Door", "1", "£0.00", "£0.00", "Total £500.00">>,
     <<"FDX1", "1", "£100.00", "", "£100.00">>,
     <<"Door", "1", "£100.00", "£0.00">>,
     <<"Oak door 2 £10.00 £20.00", "1", "£100.00", "£100.00">>,
     <<"Door", "1", "£100.00", "£100.00", "FDX1", "£0.00", "£0.00">>}

\* --- Third pass: free-form text, only when no item was found -------------

\* A delivery line followed within three lines by "price qty total".
DeliveryItem(t, k) ==
    LET rows == {j \in (k + 1)..Min(k + 3, Len(t)) : t[j] \in DOMAIN PassCTable.DeliveryRow}
    IN  IF t[k] \notin PassCTable.ReDeliveryOrShipping \/ rows = {} THEN <<>>
        ELSE LET r == PassCTable.DeliveryRow[t[CHOOSE j \in rows : \A m \in rows : j <= m]]
             IN  <<Item(<<t[k]>>, r.qty, Exactly(r.unit_price), r.total)>>

RECURSIVE DeliveryItems(_, _)
DeliveryItems(t, k) ==
    IF k > Len(t) THEN <<>> ELSE DeliveryItem(t, k) \o DeliveryItems(t, k + 1)

\* The item patterns are searched in the whole text, so a match may run over
\* line breaks: [A-Za-z\s]+ and \s+ take them, `.` does not.

\* The letters and spaces that run up to the start of line k, as parts.
RECURSIVE RegionBefore(_, _)
RegionBefore(t, k) ==
    IF k = 1 THEN <<>>
    ELSE IF t[k - 1] \in PassCTable.LettersOnly
         THEN RegionBefore(t, k - 1) \o Words(t[k - 1])
         ELSE IF t[k - 1] \in DOMAIN PassCTable.LetterTail THEN <<PassCTable.LetterTail[t[k - 1]]>> ELSE <<>>

\* First item pattern, ([A-Za-z\s]+(?:door|window|...).*?)\s+[£$€]\s*(amount),
\* met at the keyword of line k.
KeywordMatch(t, k) ==
    LET line == t[k]
        inline == line \in DOMAIN PassCTable.KeywordItem
        r == IF inline THEN PassCTable.KeywordItem[line] ELSE PassCTable.KeywordOpen[line]
        j == NextNonBlank(t, k + 1)
    IN  IF line \notin (DOMAIN PassCTable.KeywordItem \cup DOMAIN PassCTable.KeywordOpen) THEN <<>>
        ELSE IF ~(r.own \/ (r.joins /\ k > 1)) THEN <<>>
        ELSE IF ~inline /\ ~(j <= Len(t) /\ t[j] \in DOMAIN PassCTable.AmountLed) THEN <<>>
        ELSE LET price == IF inline THEN r.total ELSE PassCTable.AmountLed[t[j]]
                 qty == IF r.qty = None THEN 1 ELSE r.qty[1]
                 parts == (IF r.joins THEN RegionBefore(t, k) ELSE <<>>) \o <<r.description>>
             IN  <<Item(parts, qty, Per(price, qty), price)>>

RECURSIVE KeywordItems(_, _)
KeywordItems(t, k) ==
    IF k > Len(t) THEN <<>> ELSE KeywordMatch(t, k) \o KeywordItems(t, k + 1)

\* The first line after s that is not made of letters and spaces only.
RECURSIVE AfterLetters(_, _)
AfterLetters(t, j) ==
    IF j <= Len(t) /\ t[j] \in PassCTable.LettersOnly THEN AfterLetters(t, j + 1) ELSE j

RECURSIVE WordsOf(_, _, _)
WordsOf(t, a, b) == IF a > b THEN <<>> ELSE Words(t[a]) \o WordsOf(t, a + 1, b)

\* Second item pattern, (\d+\s*(?:x\s*)?[A-Za-z\s]+)\s+[£$€]\s*(amount): the
\* digits that end line s, then letters and white space only (two characters
\* at least, a line break among them) up to the amount of line j.
CountedMatches(t, s, j) ==
    /\ j <= Len(t)
    /\ t[j] \in DOMAIN PassCTable.AmountAfterWords
    /\ (PassCTable.TailQty[t[s]].gap \/ j > s + 1 \/ PassCTable.AmountAfterWords[t[j]].words # "")

\* finditer from line s on; `consumed` is the line whose amount ended the
\* last match (0 if none): its digits are not scanned again.
RECURSIVE CountedItems(_, _, _)
CountedItems(t, s, consumed) ==
    IF s > Len(t) THEN <<>>
    ELSE IF t[s] \in DOMAIN PassCTable.TailQty /\ s # consumed
              /\ CountedMatches(t, s, AfterLetters(t, s + 1))
         THEN LET j == AfterLetters(t, s + 1)
                  q == PassCTable.TailQty[t[s]]
                  a == PassCTable.AmountAfterWords[t[j]]
              IN  <<Item(Words(q.words) \o WordsOf(t, s + 1, j - 1) \o Words(a.words),
                         q.qty, Per(a.total, q.qty), a.total)>>
                  \o CountedItems(t, j, j)
         ELSE CountedItems(t, s + 1, consumed)

\* The third pass runs only when the first two found nothing.
PassC(t, ls) ==
    IF ls # <<>> THEN ls
    ELSE DeliveryItems(t, 1) \o KeywordItems(t, 1) \o CountedItems(t, 1, 0)

\* --- Labelled totals ----------------------------------------------------

\* The number pattern p finds from its label on line k, if any: on the line
\* itself, or at the start of the next non-blank line when the label ends
\* line k.  Only positive values are kept.
LabelledTotal(t, p, k) ==
    LET on == {r \in TotalsTable.TotalOnLine : r.pattern = p /\ r.line = t[k]}
        j == NextNonBlank(t, k + 1)
        v == IF on # {} THEN Some((CHOOSE r \in on : TRUE).value)
             ELSE IF /\ t[k] \in TotalsTable.TotalLabelEnds[p]
                     /\ j <= Len(t)
                     /\ t[j] \in DOMAIN TotalsTable.LeadingNumber
                  THEN Some(TotalsTable.LeadingNumber[t[j]])
                  ELSE None
    IN  IF v # None /\ v[1] > 0 THEN v ELSE <<>>

RECURSIVE TotalsOfPattern(_, _, _)
TotalsOfPattern(t, p, k) ==
    IF k > Len(t) THEN <<>>
    ELSE LabelledTotal(t, p, k) \o TotalsOfPattern(t, p, k + 1)

RECURSIVE TotalsFrom(_, _)
TotalsFrom(t, p) ==
    IF p > Len(TotalsTable.TotalLabelEnds) THEN <<>>
    ELSE TotalsOfPattern(t, p, 1) \o TotalsFrom(t, p + 1)

\* candidates, before the estimate is made
LabelledTotals(t) == TotalsFrom(t, 1)

\* --- Estimate -----------------------------------------------------------

RECURSIVE MaxOf(_)
MaxOf(s) == IF Len(s) = 1 THEN s[1] ELSE Max(Head(s), MaxOf(Tail(s)))

\* sum(line.get("total", 0) for line in lines)
CalculatedTotal(ls) == SumSeq([k \in 1..Len(ls) |-> ls[k].total])

ConfidenceLines == 80

ConfidenceOneTotal == 35

ConfidenceManyTotals == 55

\* A mutant of the estimate: a labelled total, when one was detected, is
\* taken in place of the sum of the line totals.
EstimatePrefersDetected(ls, cands) ==
    IF cands # <<>>
    THEN [estimated_total |-> Some(MaxOf(cands)),
          confidence |-> IF ls # <<>> THEN ConfidenceLines
                         ELSE IF Len(cands) = 1 THEN ConfidenceOneTotal
                         ELSE ConfidenceManyTotals,
          detected_totals |-> cands]
    ELSE [estimated_total |-> IF ls # <<>> /\ CalculatedTotal(ls) > 0
                              THEN Some(CalculatedTotal(ls)) ELSE None,
          confidence |-> IF ls # <<>> /\ CalculatedTotal(ls) > 0 THEN ConfidenceLines ELSE 0,
          detected_totals |-> cands]

\* A mutant of the estimate: without items the first labelled total is
\* taken, not the largest.
EstimateFirstCandidate(ls, cands) ==
    IF ls # <<>>
    THEN [estimated_total |-> IF CalculatedTotal(ls) > 0 THEN Some(CalculatedTotal(ls)) ELSE None,
          confidence |-> IF CalculatedTotal(ls) > 0 THEN ConfidenceLines ELSE 0,
          detected_totals |-> IF cands # <<>> THEN Append(cands, CalculatedTotal(ls)) ELSE cands]
    ELSE IF cands # <<>>
    THEN [estimated_total |-> Some(cands[1]),
          confidence |-> IF Len(cands) = 1 THEN ConfidenceOneTotal ELSE ConfidenceManyTotals,
          detected_totals |-> cands]
    ELSE [estimated_total |-> None, confidence |-> 0, detected_totals |-> cands]

\* estimated, confidence and the candidates list as the estimate leaves them
Estimate(ls, cands) ==
    IF ls # <<>>
    THEN [estimated_total |-> IF CalculatedTotal(ls) > 0 THEN Some(CalculatedTotal(ls)) ELSE None,
          confidence |-> IF CalculatedTotal(ls) > 0 THEN ConfidenceLines ELSE 0,
          detected_totals |-> IF cands # <<>> THEN Append(cands, CalculatedTotal(ls)) ELSE cands]
    ELSE IF cands # <<>>
    THEN [estimated_total |-> Some(MaxOf(cands)),
          confidence |-> IF Len(cands) = 1 THEN ConfidenceOneTotal ELSE ConfidenceManyTotals,
          detected_totals |-> cands]
    ELSE [estimated_total |-> None, confidence |-> 0, detected_totals |-> cands]

\* currency: the first currency symbol of the text (no line of the
\* vocabulary holds a currency code, and none names a supplier).
RECURSIVE Currency(_, _)
Currency(t, k) ==
    IF k > Len(t) THEN None
    ELSE IF t[k] \in DOMAIN ReCurrencySymbol THEN Some(ReCurrencySymbol[t[k]])
    ELSE Currency(t, k + 1)

ParsedSupplierQuote(currency, ls, est) ==
    [currency |-> currency, supplier |-> None, lines |-> ls,
     detected_totals |-> est.detected_totals,
     estimated_total |-> est.estimated_total, confidence |-> est.confidence]

\* if not text: return {...}
EmptyParse == ParsedSupplierQuote(None, <<>>, Estimate(<<>>, <<>>))

parse_quote_lines_from_text(t) ==
    IF IsEmptyString(t) THEN EmptyParse
    ELSE LET ls == PassC(t, PassB(t, PassA(t)))
         IN  ParsedSupplierQuote(Currency(t, 1), ls, Estimate(ls, LabelledTotals(t)))

\* --- The call, step by step ---------------------------------------------

\* Longest text built freely from the vocabulary.
MaxParseLines == 2

ParseInputs == NonEmptySeqsUpTo(ParseVocabulary, MaxParseLines) \cup SampleDocuments

ParseIdle ==
    /\ ppc = "idle"
    /\ ptext = TheEmptyString
    /\ i = 1
    /\ pending_description = <<>>
    /\ pending_specs = <<>>
    /\ in_quotation_section = FALSE
    /\ seen_langvalda_header = FALSE
    /\ lines = <<>>
    /\ candidates = <<>>
    /\ parsed = None

\* The call; the empty text returns at once.
ParseCall ==
    /\ ppc = "idle"
    /\ \E t \in ParseInputs :
          /\ ptext' = t
          /\ IF IsEmptyString(t)
             THEN ppc' = "done" /\ parsed' = Some(EmptyParse)
             ELSE ppc' = "pass_a" /\ parsed' = None
    /\ UNCHANGED <<i, pending_description, pending_specs, in_quotation_section,
                   seen_langvalda_header, lines, candidates>>
    /\ UNCHANGED <<bvars, evars, cvars, qvars, lvars, kvars, gvars, fvars, hvars, dvars>>

\* One iteration of the while loop of the first pass.
FirstPassLine ==
    /\ ppc = "pass_a"
    /\ i <= Len(ptext)
    /\ LET st == PassAStep(ptext,
                   PassAState(i, pending_description, pending_specs,
                              in_quotation_section, seen_langvalda_header, lines))
       IN  /\ i' = st.i
           /\ pending_description' = st.pending_description
           /\ pending_specs' = st.pending_specs
           /\ in_quotation_section' = st.in_quotation_section
           /\ seen_langvalda_header' = st.seen_langvalda_header
           /\ lines' = st.lines
    /\ UNCHANGED <<ppc, ptext, candidates, parsed>>
    /\ UNCHANGED <<bvars, evars, cvars, qvars, lvars, kvars, gvars, fvars, hvars, dvars>>

\* The while loop has ended: the second pass.
SecondPass ==
    /\ ppc = "pass_a"
    /\ i > Len(ptext)
    /\ lines' = PassB(ptext, lines)
    /\ ppc' = "pass_c"
    /\ UNCHANGED <<ptext, i, pending_description, pending_specs, in_quotation_section,
                   seen_langvalda_header, candidates, parsed>>
    /\ UNCHANGED <<bvars, evars, cvars, qvars, lvars, kvars, gvars, fvars, hvars, dvars>>

ThirdPass ==
    /\ ppc = "pass_c"
    /\ lines' = PassC(ptext, lines)
    /\ ppc' = "totals"
    /\ UNCHANGED <<ptext, i, pending_description, pending_specs, in_quotation_section,
                   seen_langvalda_header, candidates, parsed>>
    /\ UNCHANGED <<bvars, evars, cvars, qvars, lvars, kvars, gvars, fvars, hvars, dvars>>

DetectTotals ==
    /\ ppc = "totals"
    /\ candidates' = LabelledTotals(ptext)
    /\ ppc' = "estimate"
    /\ UNCHANGED <<ptext, i, pending_description, pending_specs, in_quotation_section,
                   seen_langvalda_header, lines, parsed>>
    /\ UNCHANGED <<bvars, evars, cvars, qvars, lvars, kvars, gvars, fvars, hvars, dvars>>

\* The estimate and the return.
ParseReturn ==
    /\ ppc = "estimate"
    /\ LET est == Estimate(lines, candidates)
       IN  /\ candidates' = est.detected_totals
           /\ parsed' = Some(ParsedSupplierQuote(Currency(ptext, 1), lines, est))
    /\ ppc' = "done"
    /\ UNCHANGED <<ptext, i, pending_description, pending_specs, in_quotation_section,
                   seen_langvalda_header, lines>>
    /\ UNCHANGED <<bvars, evars, cvars, qvars, lvars, kvars, gvars, fvars, hvars, dvars>>

\* ------------------------------------------------------------------------
\* Properties of the parser (checked under SpecParse)
\* ------------------------------------------------------------------------

Parsed == ppc = "done"

\* C3 (as claimed): whenever the result holds line items, estimated_total is
\* the sum of their totals and confidence is 0.8, whatever the totals are.
C3_LinesGiveEstimate ==
    (Parsed /\ parsed[1].lines # <<>>) =>
        /\ parsed[1].estimated_total = Some(CalculatedTotal(parsed[1].lines))
        /\ parsed[1].confidence = 80

\* C3 (amended): whenever the result holds line items whose totals sum to
\* more than zero, estimated_total is that sum and confidence is 0.8, with
\* or without labelled totals; when the totals sum to zero, estimated_total
\* is null and confidence is 0.0.
C3_PositiveLinesGiveEstimate ==
    (Parsed /\ parsed[1].lines # <<>>) =>
        IF CalculatedTotal(parsed[1].lines) > 0
        THEN /\ parsed[1].estimated_total = Some(CalculatedTotal(parsed[1].lines))
             /\ parsed[1].confidence = 80
        ELSE /\ parsed[1].estimated_total = None
             /\ parsed[1].confidence = 0

\* An item of 20.00 next to a labelled total of 500.00.
C3_Witness ==
    /\ Parsed
    /\ ptext = <<"Total £500.00", "Oak door 2 £10.00 £20.00">>
    /\ Len(parsed[1].lines) = 1
    /\ parsed[1].detected_totals = <<50000, 2000>>
    /\ parsed[1].estimated_total = Some(2000)
    /\ parsed[1].confidence = 80

\* C4: without line items, estimated_total is the largest detected total,
\* with confidence 0.35 for one candidate and 0.55 for more; with no
\* candidate either (the empty text included) it is null with confidence
\* 0.0.  Every confidence is one of 0.0, 0.35, 0.55, 0.8.
C4_NoLinesPolicy ==
    Parsed =>
        /\ parsed[1].confidence \in {0, 35, 55, 80}
        /\ (IsEmptyString(ptext) => parsed[1].lines = <<>> /\ parsed[1].detected_totals = <<>>)
        /\ (parsed[1].lines = <<>> =>
              IF parsed[1].detected_totals # <<>>
              THEN /\ parsed[1].estimated_total = Some(MaxOf(parsed[1].detected_totals))
                   /\ parsed[1].confidence =
                        IF Len(parsed[1].detected_totals) = 1 THEN 35 ELSE 55
              ELSE /\ parsed[1].estimated_total = None
                   /\ parsed[1].confidence = 0)

\* Three candidates, the largest not the first.
C4_Witness ==
    /\ Parsed
    /\ parsed[1].lines = <<>>
    /\ parsed[1].detected_totals = <<65000, 50000, 65000>>
    /\ parsed[1].estimated_total = Some(65000)
    /\ parsed[1].confidence = 55

\* total == qty * unit_price, the unit price being the quotient num/den (qty
\* is whole and total is in hundredths, so rounding to the precision changes
\* nothing); for qty > 0 this is also unit_price == total / qty.
Consistent(item) == item.total * item.unit_price.den = item.qty * item.unit_price.num

\* C11: every item of the result has total = round(qty * unit_price), and
\* unit_price = total / qty where only the total was read.
C11_ItemsConsistent ==
    Parsed => \A k \in 1..Len(parsed[1].lines) : Consistent(parsed[1].lines[k])

\* --- The physical lines the items are read from ---------------------------

\* The line the quantity of a first-pass item is read from: the first
\* standalone number among the five lines before line idx.
QtyLineBefore(t, idx) ==
    LET back == {b \in Max(1, idx - 5)..(idx - 1) : t[b] \in DOMAIN PassATable.StandaloneNumber}
    IN  CHOOSE b \in back : \A c \in back : b <= c

\* The lines the iteration that took state st to state after read the
\* quantity, unit price and total of the item it emitted from: a unit price
\* with a currency symbol, alone (the fixed delivery charge) or with the
\* quantity before it and the total after it; or a bare unit price with the
\* quantity line and the total line after it.
NumberLines(t, st, after) ==
    IF t[st.i] \in DOMAIN PassATable.CurrencyPrice
    THEN IF after.i = st.i + 1 THEN {st.i}
         ELSE {QtyLineBefore(t, st.i), st.i, after.i - 1}
    ELSE {st.i, NextNonBlank(t, st.i + 1), after.i - 1}

\* For each item the first pass emits from state st on, the lines it is read
\* from; desc_from and specs_from are the lines pending_description and
\* pending_specs were read from.
RECURSIVE FirstPassSources(_, _, _, _)
FirstPassSources(t, st, desc_from, specs_from) ==
    IF st.i > Len(t) THEN <<>>
    ELSE LET after == PassAStep(t, st)
         IN  IF Len(after.lines) > Len(st.lines)
             THEN <<desc_from \cup specs_from \cup NumberLines(t, st, after)>>
                  \o FirstPassSources(t, after, {}, {})
             ELSE FirstPassSources(t, after,
                     IF after.pending_description = st.pending_description THEN desc_from
                     ELSE IF after.pending_description = <<>> THEN {}
                     ELSE st.i..(after.i - 1),
                     IF after.pending_specs = st.pending_specs THEN specs_from
                     ELSE IF after.pending_specs = <<>> THEN {}
                     ELSE specs_from \cup {st.i})

\* For each item of the second pass, the line it is read from.
RECURSIVE TableSources(_, _)
TableSources(t, k) ==
    IF k > Len(t) THEN <<>>
    ELSE (IF TableItem(t[k]) # <<>> THEN <<{k}>> ELSE <<>>) \o TableSources(t, k + 1)

\* For each item of the first two passes, in the order of the result, the
\* lines it is read from.
ItemSources(t) == FirstPassSources(t, PassAStart, {}, {}) \o TableSources(t, 1)

\* C19: no physical line contributes fields to more than one item, neither
\* across the first and the second pass nor between two items of the first
\* pass; and the third pass runs only when the first two emitted no item.
C19_LinesUsedOnce ==
    (Parsed /\ ~IsEmptyString(ptext)) =>
        LET src == ItemSources(ptext)
            found == PassB(ptext, PassA(ptext))
        IN  /\ \A a, b \in 1..Len(src) : a # b => src[a] \cap src[b] = {}
            /\ (found # <<>> => parsed[1].lines = found)

\* --- table context ---

\* The step is an iteration of the first pass that emits an item.
EmitsItem == ppc = "pass_a" /\ i <= Len(ptext) /\ Len(lines') > Len(lines)

\* The walker is inside a table or quotation context: a section marker was
\* met and the section is not closed, or a table header triplet was met.
InContext == in_quotation_section \/ seen_langvalda_header

\* C22: the first pass emits an item, the fixed-charge delivery item
\* included, only inside a recognised table or quotation context; an amount
\* line met outside such a context produces no item.
C22_EmitsOnlyInContext == [][EmitsItem => InContext]_vars

\* --- skipped lines ---

\* The step is an iteration of the first pass on a date-only line.
SkipsDate ==
    /\ ppc = "pass_a" /\ i <= Len(ptext)
    /\ ptext[i] \in PassATable.ReDate

\* The step is an iteration of the first pass on a table-header line.
SkipsHeader ==
    /\ ppc = "pass_a" /\ i <= Len(ptext)
    /\ ptext[i] \notin PassATable.ReDate
    /\ ptext[i] \in PassATable.ReHeader

PendingUnchanged ==
    /\ pending_description' = pending_description
    /\ pending_specs' = pending_specs

PendingCleared ==
    /\ pending_description' = <<>>
    /\ pending_specs' = <<>>

\* C23: skipping a table-header line or a date-only line leaves
\* pending_description and pending_specs as they were, for every kind of
\* header line.
C23_SkipKeepsPending == [][(SkipsDate \/ SkipsHeader) => PendingUnchanged]_vars

\* C23, amended: a date-only line and a header line that does not begin with
\* Item, Description, Qty, Unit or Cost are skipped with the pending values
\* unchanged; a header line that begins with one of these words clears both.
C23_SkipKeepsOrClearsPending ==
    [][/\ (SkipsDate => PendingUnchanged)
       /\ (SkipsHeader =>
              IF ptext[i] \in PassATable.ReHeaderReset
              THEN PendingCleared ELSE PendingUnchanged)
       /\ (SkipsDate \/ SkipsHeader => i' = i + 1 /\ lines' = lines)]_vars

\* A header line has just cleared a pending description.
C23_Witness ==
    /\ ppc = "pass_a" /\ i = 3 /\ Len(ptext) >= 2
    /\ ptext[1] = "Door" /\ ptext[2] \in PassATable.ReHeaderReset
    /\ pending_description = <<>>

\* --- labelled totals ---

\* The lines of the text on which a listed phrase is followed by a positive
\* amount (no line of the vocabulary holds two labelled amounts).
LabelledAt(t) ==
    {k \in 1..Len(t) :
        \E p \in 1..Len(TotalsTable.TotalLabelEnds) : LabelledTotal(t, p, k) # <<>>}

\* C28: detected_totals holds exactly one entry per labelled total of the
\* text: every entry is positive and is the amount that follows a listed
\* phrase, no labelled amount is entered more than once, and nothing that is
\* not a labelled total is added.
C28_OneEntryPerLabelledTotal ==
    (Parsed /\ ~IsEmptyString(ptext)) =>
        LET dt == parsed[1].detected_totals
        IN  /\ \A e \in 1..Len(dt) :
                  /\ dt[e] > 0
                  /\ \E k \in LabelledAt(ptext), p \in 1..Len(TotalsTable.TotalLabelEnds) :
                        LabelledTotal(ptext, p, k) = <<dt[e]>>
            /\ Len(dt) = Cardinality(LabelledAt(ptext))

\* --- termination of the first pass ---

\* Longest text built freely from the lines of the first pass.
MaxWalkLines == 2

\* The lines the branches of the first pass tell apart.
WalkVocabulary ==
    {"", "Door", "1", "£100.00", "£0.00", "100.00", "pcs", "Delivery",
     "880mm", "Subtotal", "Description", "TYPE", "C", "22 07 2025",
     "The quote is valid", "5.09m2", "FENSTERCRAFT", "Reference AB1",
     "1. Type: Sash window", "(to site)", "FDX1", "2. Wood: Oak",
     "View from outside"}

WalkInputs == NonEmptySeqsUpTo(WalkVocabulary, MaxWalkLines) \cup SampleDocuments

\* parse_quote_lines_from_text(text) is called on a text of these lines.
WalkCall ==
    /\ ppc = "idle"
    /\ \E t \in WalkInputs :
          /\ ptext' = t
          /\ IF IsEmptyString(t)
             THEN ppc' = "done" /\ parsed' = Some(EmptyParse)
             ELSE ppc' = "pass_a" /\ parsed' = None
    /\ UNCHANGED <<i, pending_description, pending_specs, in_quotation_section,
                   seen_langvalda_header, lines, candidates>>
    /\ UNCHANGED <<bvars, evars, cvars, qvars, lvars, kvars, gvars, fvars, hvars, dvars>>

\* The step is an iteration of the while loop of the first pass.
Iterates == ppc = "pass_a" /\ i <= Len(ptext)

\* The amount a price line holds, with or without a currency symbol.
AmountOn(line) ==
    IF line \in DOMAIN PassATable.CurrencyPrice THEN Some(PassATable.CurrencyPrice[line])
    ELSE IF line \in DOMAIN PassATable.BarePrice THEN Some(PassATable.BarePrice[line])
    ELSE None

\* The cursor is left just past the line the total of the new item was read from.
PastTotalLine ==
    /\ i' - 1 <= Len(ptext)
    /\ AmountOn(ptext[i' - 1]) = Some(lines'[Len(lines')].total)

\* C30: the first pass terminates on every finite input: the cursor strictly
\* increases on every iteration of the loop, and after an item is emitted
\* the cursor is just past the consumed total line, so that line and the
\* lines before it are not visited again.
C30_FirstPassTerminates ==
    /\ [][Iterates => (i' > i /\ (EmitsItem => PastTotalLine))]_vars
    /\ (ppc = "pass_a") ~> (i > Len(ptext))

\* The loop has ended after emitting an item and jumping over several lines.
C30_Witness ==
    /\ ppc = "pass_a" /\ i > Len(ptext)
    /\ Len(ptext) >= 4
    /\ Len(lines) = 1

\* ------------------------------------------------------------------------
\* Client quote parser: parse_client_quote_from_text
\* ------------------------------------------------------------------------

\* The patterns of the client quote parser (pdf_parser.py:656-838), over the
\* lines of ParseVocabulary and of ClientVocabulary.  Each field is one pattern, named in the comment before it.
ClientTable ==
    [
      \* ^([A-Z][A-Za-z\s]+)$ on one line: a capital, then letters and spaces
      LocationLine |->
          {"Door", "Delivery", "Subtotal", "Description", "TYPE",
          "The quote is valid", "FENSTERCRAFT", "View from outside", "VAT",
          "Item Description Number Width Height", "Sliding Sash Window"},
      \* lines of one capital letter, which the pattern takes with the line break
      \* after it
      CapitalLetter |-> {"C"},
      \* window|sash|frame, whatever the case
      ReWindows |->
          {"1. Type: Sash window", "Oak frame 2 15.00", "Sliding Sash Window"},
      \* door|entrance, whatever the case
      ReDoors |-> {"Door", "Oak door 2 £10.00 £20.00", "1. Oak door 2 £10.00 £20.00"},
      \* joinery|timber|wood, whatever the case
      ReJoinery |-> {"2. Wood: Oak", "Timber: ACCOYA"},
      \* ACCOYA, whatever the case
      ReAccoya |-> {"Timber: ACCOYA"},
      \* Item\s+Description\s+Number\s+Width\s+Height
      ReItemsHeader |-> {"Item Description Number Width Height"},
      \* VAT|Total|£\d found and "Description" not in line
      ReItemsEnd |->
          {"£100.00", "£0.00", "Oak door 2 £10.00 £20.00", "Total £500.00",
          "Grand Total: £650.00", "1. Oak door 2 £10.00 £20.00",
          "Brass handle £12.50", "2 x Hinge @ £3.00", "Carriage shipping £25.00",
          "ab 2 £1.00 £2.00", "VAT", "Total investment £90.00", "Total £0.00"},
      \* Sliding Sash, whatever the case
      ReSlidingSash |-> {"Sliding Sash Window"},
      \* (\d+)\s+(\d+mm)\s+(\d+mm): the quantity, and the width and height in mm
      Dimensions |->
          (("2 900mm 1200mm" :> [quantity |-> 2, width |-> 900, height |-> 1200])
          @@ ("1 10mm 10mm" :> [quantity |-> 1, width |-> 10, height |-> 10])),
      \* Total\s*£([\d,]+\.?\d*) with float(group 1), in hundredths
      QuotedPrice |->
          (("Total £500.00" :> 50000)
          @@ ("Total £0.00" :> 0)) ]

\* The last line of the run of letters-only lines that starts at line m.
RECURSIVE LettersRun(_, _)
LettersRun(t, m) ==
    IF m + 1 <= Len(t) /\ t[m + 1] \in PassCTable.LettersOnly
    THEN LettersRun(t, m + 1) ELSE m

\* .strip() of the matched run: the blank lines that end it are dropped.
RECURSIVE LastNonBlank(_, _)
LastNonBlank(t, m) == IF t[m] = "" THEN LastNonBlank(t, m - 1) ELSE m

\* The generic location pattern, ^([A-Z][A-Za-z\s]+)$ with re.MULTILINE,
\* matches from line k.
LocationStarts(t, k) ==
    \/ t[k] \in ClientTable.LocationLine
    \/ /\ t[k] \in ClientTable.CapitalLetter
       /\ k + 1 <= Len(t)
       /\ t[k + 1] \in PassCTable.LettersOnly

\* project_details["project_location"], as the lines of the first match (no
\* line names a Church, School, Hospital, Centre, Hall or Building, or Wealden).
ProjectLocation(t) ==
    LET starts == {k \in 1..Len(t) : LocationStarts(t, k)}
    IN  IF starts = {} THEN None
        ELSE LET k == CHOOSE a \in starts : \A b \in starts : a <= b
             IN  Some(SubSeq(t, k, LastNonBlank(t, LettersRun(t, k))))

\* questionnaire_answers["project_type"]
ProjectType(t) ==
    IF Found(ClientTable.ReWindows, t) THEN Some("windows")
    ELSE IF Found(ClientTable.ReDoors, t) THEN Some("doors")
    ELSE IF Found(ClientTable.ReJoinery, t) THEN Some("joinery")
    ELSE None

\* in_items_section once the line has been looked at.
InItemsSection(line, inside) ==
    IF line \in ClientTable.ReItemsHeader THEN TRUE
    ELSE IF line \in ClientTable.ReItemsEnd THEN FALSE
    ELSE inside

\* The item of the Sliding Sash line k: its dimensions are looked for on the
\* line itself and the four after it.
SashItem(t, k) ==
    LET rows == {j \in k..Min(k + 4, Len(t)) : t[j] \in DOMAIN ClientTable.Dimensions}
    IN  IF rows = {} THEN <<>>
        ELSE LET d == ClientTable.Dimensions[t[CHOOSE j \in rows : \A m \in rows : j <= m]]
             IN  <<[description |-> t[k], quantity |-> d.quantity,
                    width |-> d.width, height |-> d.height]>>

\* line_items, from line k on.
RECURSIVE ClientLineItems(_, _, _)
ClientLineItems(t, k, inside) ==
    IF k > Len(t) THEN <<>>
    ELSE LET line == t[k]
             now == InItemsSection(line, inside)
         IN  (IF /\ line \notin ClientTable.ReItemsHeader
                 /\ now
                 /\ line # ""
                 /\ line \in ClientTable.ReSlidingSash
              THEN SashItem(t, k) ELSE <<>>)
             \o ClientLineItems(t, k + 1, now)

\* total_area, in square millimetres.
TotalArea(items) ==
    SumSeq([k \in 1..Len(items) |-> items[k].width * items[k].height * items[k].quantity])

\* questionnaire_answers["area_m2"], in hundredths of a square metre.
AreaM2(items) ==
    IF TotalArea(items) > 0 THEN Some(RoundHalfEven(TotalArea(items), 10000)) ELSE None

\* quoted_price: the first labelled total of the text, in hundredths.
RECURSIVE QuotedPriceFrom(_, _)
QuotedPriceFrom(t, k) ==
    IF k > Len(t) THEN None
    ELSE IF t[k] \in DOMAIN ClientTable.QuotedPrice THEN Some(ClientTable.QuotedPrice[t[k]])
    ELSE QuotedPriceFrom(t, k + 1)

\* An optional number that Python takes for true: present and not zero.
TruthyNumber(o) == o # None /\ o[1] # 0

\* The weights of confidence_factors.
ConfidenceFactors ==
    [quoted_price |-> 3, line_items |-> 2, project_type |-> 2,
     project_location |-> 1, area_m2 |-> 2]

\* confidence = min(confidence_factors / 10.0, 1.0), in hundredths.
ClientConfidence(quoted_price, line_items, project_type, project_location, area_m2) ==
    LET w == ConfidenceFactors
        confidence_factors ==
            (IF TruthyNumber(quoted_price) THEN w.quoted_price ELSE 0)
            + (IF line_items # <<>> THEN w.line_items ELSE 0)
            + (IF project_type # None THEN w.project_type ELSE 0)
            + (IF project_location # None THEN w.project_location ELSE 0)
            + (IF TruthyNumber(area_m2) THEN w.area_m2 ELSE 0)
    IN  Min(confidence_factors * 10, 100)

ParsedClientQuote(quoted_price, line_items, project_type, project_location, area_m2) ==
    [quoted_price |-> quoted_price, line_items |-> line_items,
     project_type |-> project_type, project_location |-> project_location,
     area_m2 |-> area_m2,
     confidence |-> ClientConfidence(quoted_price, line_items, project_type,
                                     project_location, area_m2)]

\* wood_types: the timbers named in the text, of which the code knows one.
WoodTypes(t) == IF Found(ClientTable.ReAccoya, t) THEN <<"Accoya">> ELSE <<>>

\* questionnaire_answers["wood_type"], set only when a timber was found.
WoodType(t) == IF WoodTypes(t) # <<>> THEN Some(WoodTypes(t)[1]) ELSE None

\* questionnaire_answers["materials_grade"], set only when a timber was found.
MaterialsGrade(t) ==
    IF WoodTypes(t) # <<>>
    THEN Some(IF \E k \in 1..Len(WoodTypes(t)) : WoodTypes(t)[k] = "Accoya"
              THEN "premium" ELSE "standard")
    ELSE None

\* The materials keys of questionnaire_answers.
Materials(wood_type, materials_grade) ==
    [wood_type |-> wood_type, materials_grade |-> materials_grade]

parse_client_quote_from_text(t) ==
    IF IsEmptyString(t)
    THEN ParsedClientQuote(None, <<>>, None, None, None) @@ Materials(None, None)
    ELSE LET items == ClientLineItems(t, 1, FALSE)
         IN  ParsedClientQuote(QuotedPriceFrom(t, 1), items, ProjectType(t),
                               ProjectLocation(t), AreaM2(items))
             @@ Materials(WoodType(t), MaterialsGrade(t))

\* ------------------------------------------------------------------------
\* Calls of the client quote parser
\* ------------------------------------------------------------------------

\* Longest text built freely from the vocabulary.
MaxClientLines == 3

\* The lines the client quotes are made of.
ClientVocabulary ==
    {"", "Door", "2. Wood: Oak", "Item Description Number Width Height",
     "Sliding Sash Window", "2 900mm 1200mm", "1 10mm 10mm", "Total £500.00",
     "Total £0.00", "Timber: ACCOYA"}

\* A client quote with a priced sash window.
ClientSamples ==
    {<<"Item Description Number Width Height", "Sliding Sash Window",
       "2 900mm 1200mm", "Total £500.00">>}

ClientTexts == NonEmptySeqsUpTo(ClientVocabulary, MaxClientLines) \cup ClientSamples

ClientIdle ==
    /\ kpc = "idle"
    /\ ktext = TheEmptyString
    /\ client_parsed = None

\* parse_client_quote_from_text(text) is called.
ClientCall ==
    /\ kpc = "idle"
    /\ \E t \in ClientTexts : ktext' = t
    /\ kpc' = "called"
    /\ UNCHANGED client_parsed
    /\ UNCHANGED <<bvars, evars, cvars, pvars, qvars, lvars, gvars, fvars, hvars, dvars>>

\* The call returns its dict.
ClientReturn ==
    /\ kpc = "called"
    /\ client_parsed' = Some(parse_client_quote_from_text(ktext))
    /\ kpc' = "returned"
    /\ UNCHANGED ktext
    /\ UNCHANGED <<bvars, evars, cvars, pvars, qvars, lvars, gvars, fvars, hvars, dvars>>

\* The caller has used the result.
ClientForget ==
    /\ kpc = "returned"
    /\ kpc' = "idle"
    /\ ktext' = TheEmptyString
    /\ client_parsed' = None
    /\ UNCHANGED <<bvars, evars, cvars, pvars, qvars, lvars, gvars, fvars, hvars, dvars>>

\* --- claims about the client quote parser ---

\* 1 if the field was populated, else 0.
Populated(field) == IF field # None THEN 1 ELSE 0

\* C15: confidence is (3*[quoted_price populated] + 2*[line_items non-empty]
\* + 2*[project_type populated] + 1*[project_location populated]
\* + 2*[area_m2 populated]) / 10, hence a multiple of 0.1 within 0..1, and it
\* is 0.0 for empty text.
C15_Confidence ==
    kpc = "returned" =>
        LET r == client_parsed[1]
            weight == 3 * Populated(r.quoted_price)
                      + 2 * (IF r.line_items # <<>> THEN 1 ELSE 0)
                      + 2 * Populated(r.project_type)
                      + 1 * Populated(r.project_location)
                      + 2 * Populated(r.area_m2)
        IN  /\ r.confidence * 10 = weight * 100
            /\ r.confidence \in {10 * n : n \in 0..10}
            /\ (IsEmptyString(ktext) => r.confidence = 0)

\* C29: materials_grade is "premium" when a named premium timber occurs in
\* the text and "standard" otherwise, and project_type follows the keyword
\* precedence windows (window/sash/frame), then doors (door/entrance), then
\* joinery (joinery/timber/wood).
C29_MaterialsAndProjectType ==
    (kpc = "returned" /\ ~IsEmptyString(ktext)) =>
        LET r == client_parsed[1]
            windows == Found(ClientTable.ReWindows, ktext)
            doors == Found(ClientTable.ReDoors, ktext)
            joinery == Found(ClientTable.ReJoinery, ktext)
        IN  /\ r.materials_grade =
                  IF Found(ClientTable.ReAccoya, ktext)
                  THEN Some("premium") ELSE Some("standard")
            /\ (windows => r.project_type = Some("windows"))
            /\ (~windows /\ doors => r.project_type = Some("doors"))
            /\ (~windows /\ ~doors /\ joinery => r.project_type = Some("joinery"))
            /\ (~windows /\ ~doors /\ ~joinery => r.project_type = None)

\* ------------------------------------------------------------------------
\* Two calls of the core in progress at once
\* ------------------------------------------------------------------------

\* The calls in progress, e.g. two requests served by two worker threads.
CallIds == {1, 2}

Other(id) == 3 - id

\* The frame of a call: its arguments, its position and its locals.  For
\* parse_quote_lines_from_text: text, st (i, pending_description,
\* pending_specs, the two flags and lines) and candidates; for
\* build_client_quote_from_supplier_parsed: sp, c, the lines the partition
\* loop has read (n), base_items and supplier_delivery_total.  overlapped
\* records that the other call took a step while this one was in progress.
IdleFrame ==
    [pc |-> "idle", kind |-> "", text |-> TheEmptyString, st |-> PassAStart,
     candidates |-> <<>>, sp |-> NoQuote, c |-> NoConfig, n |-> 0,
     base_items |-> <<>>, supplier_delivery_total |-> 0, result |-> None,
     overlapped |-> FALSE]

InProgress(f) == f.pc \notin {"idle", "done"}

\* A mutant of Locals: pending_description is one module-level variable, the
\* one the first call works on.
LocalsSharedPending(fs, id) ==
    [fs[id] EXCEPT !.st.pending_description = fs[1].st.pending_description]

\* The locals a step of call id reads: every name the two functions assign
\* is local to the call (i, pending_description, pending_specs, ... at
\* pdf_parser.py:231-235; base_items, supplier_delivery_total, ... at
\* main.py:1477-1479), so the step sees its own frame and nothing else.
Locals(fs, id) == fs[id]

\* The frames after call id has moved to frame f.
AfterStep(id, f) ==
    [k \in CallIds |->
        IF k = id THEN f
        ELSE IF InProgress(frames[k]) THEN [frames[k] EXCEPT !.overlapped = TRUE]
        ELSE frames[k]]

\* The texts and the supplier quotes of the concurrent calls.
ConcurrentTexts ==
    {TheEmptyString,
     <<"Door", "1", "£100.00", "£0.00">>,
     <<"FDX1", "1", "£100.00", "", "£100.00">>,
     <<"Door", "1", "£0.00", "£0.00", "Total £500.00">>,
     <<"Oak door 2 £10.00 £20.00", "Brass handle £12.50">>}

ConcurrentQuotes ==
    {[currency |-> "GBP", lines |-> ls] :
        ls \in {<<Line("A", 1, 10000, 10000), Line("Delivery", 0, 0, 3000)>>,
                <<Line("B", 1, 20000, 20000), Line("C", 3, 50, 0)>>,
                <<Line("Shipping", 1, 180, 180)>>}}

ConcurrentConfigs ==
    {c \in Configs : /\ c.markup_percent = 20 /\ c.vat_percent = 20 /\ c.round_to = 2
                     /\ c.client_delivery_gbp = None /\ ~c.markup_delivery}

ConcurrentIdle == frames = [id \in CallIds |-> IdleFrame]

\* parse_quote_lines_from_text(text) is called; the empty text returns at once.
CallParser(id) ==
    /\ frames[id].pc = "idle"
    /\ \E t \in ConcurrentTexts :
          frames' = AfterStep(id,
              [IdleFrame EXCEPT !.kind = "parse", !.text = t,
                  !.pc = IF IsEmptyString(t) THEN "done" ELSE "pass_a",
                  !.result = IF IsEmptyString(t) THEN Some(EmptyParse) ELSE None])
    /\ UNCHANGED <<bvars, evars, cvars, pvars, qvars, lvars, kvars, gvars, hvars, dvars>>

\* One iteration of the while loop of the first pass, in call id.
StepFirstPass(id) ==
    LET f == Locals(frames, id)
    IN  /\ f.kind = "parse" /\ f.pc = "pass_a"
        /\ f.st.i <= Len(f.text)
        /\ frames' = AfterStep(id, [f EXCEPT !.st = PassAStep(f.text, f.st)])
        /\ UNCHANGED <<bvars, evars, cvars, pvars, qvars, lvars, kvars, gvars, hvars, dvars>>

\* The second pass, in call id.
StepSecondPass(id) ==
    LET f == Locals(frames, id)
    IN  /\ f.kind = "parse" /\ f.pc = "pass_a"
        /\ f.st.i > Len(f.text)
        /\ frames' = AfterStep(id, [f EXCEPT !.st.lines = PassB(f.text, f.st.lines),
                                             !.pc = "pass_c"])
        /\ UNCHANGED <<bvars, evars, cvars, pvars, qvars, lvars, kvars, gvars, hvars, dvars>>

\* The third pass, in call id.
StepThirdPass(id) ==
    LET f == Locals(frames, id)
    IN  /\ f.kind = "parse" /\ f.pc = "pass_c"
        /\ frames' = AfterStep(id, [f EXCEPT !.st.lines = PassC(f.text, f.st.lines),
                                             !.pc = "totals"])
        /\ UNCHANGED <<bvars, evars, cvars, pvars, qvars, lvars, kvars, gvars, hvars, dvars>>

\* The labelled totals, in call id.
StepTotals(id) ==
    LET f == Locals(frames, id)
    IN  /\ f.kind = "parse" /\ f.pc = "totals"
        /\ frames' = AfterStep(id, [f EXCEPT !.candidates = LabelledTotals(f.text),
                                             !.pc = "estimate"])
        /\ UNCHANGED <<bvars, evars, cvars, pvars, qvars, lvars, kvars, gvars, hvars, dvars>>

\* The estimate and the return, in call id.
StepParseReturn(id) ==
    LET f == Locals(frames, id)
        est == Estimate(f.st.lines, f.candidates)
    IN  /\ f.kind = "parse" /\ f.pc = "estimate"
        /\ frames' = AfterStep(id,
              [f EXCEPT !.candidates = est.detected_totals,
                        !.result = Some(ParsedSupplierQuote(Currency(f.text, 1), f.st.lines, est)),
                        !.pc = "done"])
        /\ UNCHANGED <<bvars, evars, cvars, pvars, qvars, lvars, kvars, gvars, hvars, dvars>>

\* build_client_quote_from_supplier_parsed(supplier_parsed, **cfg) is called.
CallBuilder(id) ==
    /\ frames[id].pc = "idle"
    /\ \E sp \in ConcurrentQuotes, c \in ConcurrentConfigs :
          frames' = AfterStep(id, [IdleFrame EXCEPT !.kind = "build", !.sp = sp, !.c = c,
                                                    !.pc = "partition"])
    /\ UNCHANGED <<bvars, evars, cvars, pvars, qvars, lvars, kvars, gvars, hvars, dvars>>

\* One iteration of the partition loop, in call id: a delivery line adds to
\* supplier_delivery_total, any other line is appended to base_items.
StepPartition(id) ==
    LET f == Locals(frames, id)
    IN  /\ f.kind = "build" /\ f.pc = "partition"
        /\ f.n < Len(f.sp.lines)
        /\ LET ln == f.sp.lines[f.n + 1]
           IN  frames' = AfterStep(id,
                  IF is_delivery_ln(ln.description)
                  THEN [f EXCEPT !.n = @ + 1,
                                 !.supplier_delivery_total = @ + Max(0, LineTotal(ln))]
                  ELSE [f EXCEPT !.n = @ + 1,
                                 !.base_items = Append(@, BaseItem(ln))])
        /\ UNCHANGED <<bvars, evars, cvars, pvars, qvars, lvars, kvars, gvars, hvars, dvars>>

\* The rest of the function and its return, in call id.
StepBuildReturn(id) ==
    LET f == Locals(frames, id)
    IN  /\ f.kind = "build" /\ f.pc = "partition"
        /\ f.n = Len(f.sp.lines)
        /\ frames' = AfterStep(id,
              [f EXCEPT !.result = Some(QuoteOf(f.sp.currency, f.base_items,
                                                f.supplier_delivery_total, f.c)),
                        !.pc = "done"])
        /\ UNCHANGED <<bvars, evars, cvars, pvars, qvars, lvars, kvars, gvars, hvars, dvars>>

\* The caller of call id has taken the result; the frame is gone.
Collect(id) ==
    /\ frames[id].pc = "done"
    /\ frames' = AfterStep(id, IdleFrame)
    /\ UNCHANGED <<bvars, evars, cvars, pvars, qvars, lvars, kvars, gvars, hvars, dvars>>

\* --- claims about concurrent calls ---

\* What the call of frame f returns when it runs alone.
Alone(f) ==
    IF f.kind = "parse" THEN parse_quote_lines_from_text(f.text)
    ELSE build_client_quote_from_supplier_parsed(f.sp, f.c)

MinSupplierSignal == 1

\* client_signal that makes the quote a client quote, in hundredths.
MinClientSignal == 20

\* A mutant of ResolveType: the client signal is looked at first.
ResolveTypeClientFirst(supplier_signal, client_signal) ==
    IF client_signal >= MinClientSignal THEN "client"
    ELSE IF supplier_signal >= MinSupplierSignal THEN "supplier"
    ELSE "unknown"

\* "supplier" if supplier_signal >= 1 else ("client" if client_signal >= 0.2
\* else "unknown")
ResolveType(supplier_signal, client_signal) ==
    IF supplier_signal >= MinSupplierSignal THEN "supplier"
    ELSE IF client_signal >= MinClientSignal THEN "client"
    ELSE "unknown"

\* not text.strip()
IsBlank(t) == \A k \in 1..Len(t) : t[k] = ""

\* What the endpoint answers: the HTTP status, the detail of an error, the
\* fields ok and quote_type, and the names of the fields that carry a result.
Response(status, detail, ok, type, fields) ==
    [status |-> status, detail |-> detail, ok |-> ok, quote_type |-> type,
     fields |-> fields]

\* Longest text built freely from the vocabulary.
MaxProcessLines == 2

\* The lines the documents sent to the endpoint are made of.
ProcessVocabulary ==
    {"", "1", "VAT", "Door", "1. Type: Sash window", "Oak door 2 £10.00 £20.00",
     "Brass handle £12.50", "Total £500.00", "Item Description Number Width Height"}

\* Documents that the classifier settles by itself.
ProcessSamples ==
    {<<"Oak door 2 £10.00 £20.00", "Subtotal", "VAT", "Total £500.00">>,
     <<"Item Description Number Width Height", "Sliding Sash Window",
       "2 900mm 1200mm", "Total £500.00">>}

\* A request: whether its URL can be fetched, and the text of the document.
Requests ==
    [download : {"ok", "fails"},
     text : NonEmptySeqsUpTo(ProcessVocabulary, MaxProcessLines) \cup ProcessSamples]

ProcessIdle ==
    /\ qpc = "idle"
    /\ request = [download |-> "ok", text |-> TheEmptyString]
    /\ qtext = TheEmptyString
    /\ qtype = None
    /\ supplier_try = None
    /\ client_try = None
    /\ invoked = <<>>
    /\ response = None

ProcessCall ==
    /\ qpc = "idle"
    /\ \E r \in Requests : request' = r
    /\ qpc' = "download"
    /\ UNCHANGED <<qtext, qtype, supplier_try, client_try, invoked, response>>
    /\ UNCHANGED <<bvars, evars, cvars, pvars, lvars, kvars, gvars, fvars, hvars, dvars>>

\* pdf_bytes = _http_get_bytes(payload.url), or HTTP 404
Download ==
    /\ qpc = "download"
    /\ IF request.download = "fails"
       THEN /\ response' = Some(Response(404, "download_failed", FALSE, "", {}))
            /\ qpc' = "done"
       ELSE /\ response' = response
            /\ qpc' = "extract"
    /\ UNCHANGED <<request, qtext, qtype, supplier_try, client_try, invoked>>
    /\ UNCHANGED <<bvars, evars, cvars, pvars, lvars, kvars, gvars, fvars, hvars, dvars>>

\* text = extract_text_from_pdf_bytes(pdf_bytes) or "", and the answer for a
\* document without text
ExtractText ==
    /\ qpc = "extract"
    /\ qtext' = request.text
    /\ invoked' = Append(invoked, "extract_text_from_pdf_bytes")
    /\ IF IsBlank(request.text)
       THEN /\ response' = Some(Response(200, "", FALSE, "unknown", {"message"}))
            /\ qpc' = "done"
       ELSE /\ response' = response
            /\ qpc' = "classify"
    /\ UNCHANGED <<request, qtype, supplier_try, client_try>>
    /\ UNCHANGED <<bvars, evars, cvars, pvars, lvars, kvars, gvars, fvars, hvars, dvars>>

\* quote_type = determine_quote_type(text)
ClassifyText ==
    /\ qpc = "classify"
    /\ qtype' = Some(determine_quote_type(qtext))
    /\ invoked' = Append(invoked, "determine_quote_type")
    /\ qpc' = IF determine_quote_type(qtext) = "unknown" THEN "try_both" ELSE "respond"
    /\ UNCHANGED <<request, qtext, supplier_try, client_try, response>>
    /\ UNCHANGED <<bvars, evars, cvars, pvars, lvars, kvars, gvars, fvars, hvars, dvars>>

\* if quote_type == "unknown": both parsers are tried and the type is
\* resolved from what they find
TryBoth ==
    /\ qpc = "try_both"
    /\ LET s == parse_quote_lines_from_text(qtext)
           c == parse_client_quote_from_text(qtext)
       IN  /\ supplier_try' = Some(s)
           /\ client_try' = Some(c)
           /\ qtype' = Some(ResolveType(Len(s.lines), c.confidence))
    /\ invoked' = invoked \o <<"parse_quote_lines_from_text", "parse_client_quote_from_text">>
    /\ qpc' = "respond"
    /\ UNCHANGED <<request, qtext, response>>
    /\ UNCHANGED <<bvars, evars, cvars, pvars, lvars, kvars, gvars, fvars, hvars, dvars>>

\* if quote_type == "supplier": the text is parsed and priced.  The answer
\* carries supplier_parsed and the client_quote made from it; that they were
\* computed is what is held here.
RespondSupplier ==
    /\ qpc = "respond"
    /\ qtype = Some("supplier")
    /\ invoked' = invoked \o <<"parse_quote_lines_from_text",
                               "build_client_quote_from_supplier_parsed">>
    /\ response' = Some(Response(200, "", TRUE, "supplier", {"supplier_parsed", "client_quote"}))
    /\ qpc' = "done"
    /\ UNCHANGED <<request, qtext, qtype, supplier_try, client_try>>
    /\ UNCHANGED <<bvars, evars, cvars, pvars, lvars, kvars, gvars, fvars, hvars, dvars>>

\* elif quote_type == "client"
RespondClient ==
    /\ qpc = "respond"
    /\ qtype = Some("client")
    /\ invoked' = Append(invoked, "parse_client_quote_from_text")
    /\ response' = Some(Response(200, "", TRUE, "client", {"training_candidate"}))
    /\ qpc' = "done"
    /\ UNCHANGED <<request, qtext, qtype, supplier_try, client_try>>
    /\ UNCHANGED <<bvars, evars, cvars, pvars, lvars, kvars, gvars, fvars, hvars, dvars>>

\* else: the diagnostics of an unknown quote
RespondUnknown ==
    /\ qpc = "respond"
    /\ qtype = Some("unknown")
    /\ response' = Some(Response(200, "", TRUE, "unknown", {"raw_text_length", "message"}))
    /\ qpc' = "done"
    /\ UNCHANGED <<request, qtext, qtype, supplier_try, client_try, invoked>>
    /\ UNCHANGED <<bvars, evars, cvars, pvars, lvars, kvars, gvars, fvars, hvars, dvars>>

\* ------------------------------------------------------------------------
\* The endpoints parse_quote and parse_pdf_legacy
\* ------------------------------------------------------------------------

ParseEndpoints == {"parse_quote", "parse_pdf_legacy"}

\* The detail of the HTTP 422 that the bare `except:` of the JSON branch of
\* parse_pdf_legacy raises for whatever was raised inside its try block.
LegacyCatchAll == "Request must be multipart/form-data with file or JSON with url"

\* The documents behind the URLs and in the uploads.
FetchTexts == {TheEmptyString, <<"Door">>} \cup ProcessSamples

\* A request: its body (a JSON body with or without url or, for the legacy
\* endpoint, a multipart form with or without file), whether the URL can be
\* fetched, and the text of the document.
FetchRequests(handler) ==
    [body : IF handler = "parse_pdf_legacy"
            THEN {"url", "no_url", "upload", "upload_no_file"} ELSE {"url", "no_url"},
     download : {"ok", "fails"},
     text : FetchTexts]

FetchIdle ==
    /\ hpc = "idle"
    /\ served_by = ""
    /\ hrequest = [body |-> "url", download |-> "ok", text |-> TheEmptyString]
    /\ htype = None
    /\ hinvoked = <<>>
    /\ hresponse = None

FetchCall ==
    /\ hpc = "idle"
    /\ \E handler \in ParseEndpoints :
          /\ served_by' = handler
          /\ \E r \in FetchRequests(handler) : hrequest' = r
    /\ hpc' = "body"
    /\ UNCHANGED <<htype, hinvoked, hresponse>>
    /\ UNCHANGED <<bvars, evars, cvars, pvars, qvars, lvars, kvars, gvars, fvars, dvars>>

\* The body is read.  parse_quote answers 422 "missing url" without a url;
\* in parse_pdf_legacy the 422 "missing url or file" is raised inside the try
\* block and replaced by the catch-all, and a form without file is answered
\* before the try block.
ReadBody ==
    /\ hpc = "body"
    /\ CASE hrequest.body = "url" ->
                hpc' = "download" /\ UNCHANGED hresponse
         [] hrequest.body = "upload" ->
                hpc' = "extract" /\ UNCHANGED hresponse
         [] hrequest.body = "upload_no_file" ->
                /\ hpc' = "done"
                /\ hresponse' = Some(Response(422, "missing file in form data", FALSE, "", {}))
         [] OTHER ->
                /\ hpc' = "done"
                /\ hresponse' = Some(Response(422,
                        IF served_by = "parse_quote" THEN "missing url" ELSE LegacyCatchAll,
                        FALSE, "", {}))
    /\ UNCHANGED <<served_by, hrequest, htype, hinvoked>>
    /\ UNCHANGED <<bvars, evars, cvars, pvars, qvars, lvars, kvars, gvars, fvars, dvars>>

\* pdf_bytes = _http_get_bytes(url).  parse_quote turns an exception into
\* HTTP 404 download_failed; in parse_pdf_legacy the call stands in the try
\* block whose bare `except:` answers 422 with the catch-all detail.
FetchDownload ==
    /\ hpc = "download"
    /\ IF hrequest.download = "fails"
       THEN /\ hresponse' = Some(IF served_by = "parse_quote"
                                 THEN Response(404, "download_failed", FALSE, "", {})
                                 ELSE Response(422, LegacyCatchAll, FALSE, "", {}))
            /\ hpc' = "done"
       ELSE /\ hresponse' = hresponse
            /\ hpc' = "extract"
    /\ UNCHANGED <<served_by, hrequest, htype, hinvoked>>
    /\ UNCHANGED <<bvars, evars, cvars, pvars, qvars, lvars, kvars, gvars, fvars, dvars>>

\* text = extract_text_from_pdf_bytes(pdf_bytes) or ""
FetchExtract ==
    /\ hpc = "extract"
    /\ hinvoked' = Append(hinvoked, "extract_text_from_pdf_bytes")
    /\ hpc' = IF served_by = "parse_quote" THEN "parse" ELSE "classify"
    /\ UNCHANGED <<served_by, hrequest, htype, hresponse>>
    /\ UNCHANGED <<bvars, evars, cvars, pvars, qvars, lvars, kvars, gvars, fvars, dvars>>

\* quote_type = determine_quote_type(text), in parse_pdf_legacy
FetchClassify ==
    /\ hpc = "classify"
    /\ htype' = Some(determine_quote_type(hrequest.text))
    /\ hinvoked' = Append(hinvoked, "determine_quote_type")
    /\ hpc' = "parse"
    /\ UNCHANGED <<served_by, hrequest, hresponse>>
    /\ UNCHANGED <<bvars, evars, cvars, pvars, qvars, lvars, kvars, gvars, fvars, dvars>>

\* The text is parsed and the answer returned: parse_quote parses a non-empty
\* text with parse_totals_from_text; parse_pdf_legacy parses a supplier or
\* unknown quote with the supplier parser and a client quote with the client
\* parser.
FetchParse ==
    /\ hpc = "parse"
    /\ IF served_by = "parse_quote"
       THEN /\ hinvoked' = IF IsEmptyString(hrequest.text) THEN hinvoked
                           ELSE Append(hinvoked, "parse_totals_from_text")
            /\ hresponse' = Some(Response(200, "", TRUE, "",
                                 {"filename", "quotedAt", "text_chars", "parsed"}))
       ELSE /\ hinvoked' = Append(hinvoked,
                               IF htype[1] \in {"supplier", "unknown"}
                               THEN "parse_quote_lines_from_text"
                               ELSE "parse_client_quote_from_text")
            /\ hresponse' = Some(Response(200, "", TRUE, htype[1], {"text_chars", "parsed"}))
    /\ hpc' = "done"
    /\ UNCHANGED <<served_by, hrequest, htype>>
    /\ UNCHANGED <<bvars, evars, cvars, pvars, qvars, lvars, kvars, gvars, fvars, dvars>>

\* The answer has been sent.
FetchForget ==
    /\ hpc = "done"
    /\ hpc' = "idle"
    /\ served_by' = ""
    /\ hrequest' = [body |-> "url", download |-> "ok", text |-> TheEmptyString]
    /\ htype' = None
    /\ hinvoked' = <<>>
    /\ hresponse' = None
    /\ UNCHANGED <<bvars, evars, cvars, pvars, qvars, lvars, kvars, gvars, fvars, dvars>>

\* --- claims about failed downloads ---

\* The answer to a failed download: HTTP 404 with the detail download_failed.
DownloadFailed == Response(404, "download_failed", FALSE, "", {})

\* C18: in every endpoint that downloads the document by URL (process_quote,
\* parse_quote, parse_pdf_legacy) a failed download is answered with the
\* explicit failure kind download_failed, never with ok or another error
\* kind, and no extraction, classification or parsing runs after it.
C18_DownloadFailed ==
    /\ (hpc = "done" /\ hrequest.body = "url" /\ hrequest.download = "fails")
           => (hresponse = Some(DownloadFailed) /\ hinvoked = <<>>)
    /\ (qpc = "done" /\ request.download = "fails")
           => (response = Some(DownloadFailed) /\ invoked = <<>>)

\* ------------------------------------------------------------------------
\* Claims about the endpoint
\* ------------------------------------------------------------------------

\* The function was called during the request.
Invoked(name) == \E k \in 1..Len(invoked) : invoked[k] = name

\* The request was answered after the classifier had returned "unknown".
AnsweredUnknownByClassifier ==
    /\ qpc = "done"
    /\ Invoked("determine_quote_type")
    /\ determine_quote_type(qtext) = "unknown"

\* C8: when the classifier returns unknown, both extractors are run and the
\* final type is supplier iff the supplier extractor yields at least one line
\* item, whatever the client extractor's confidence; otherwise client iff
\* that confidence is at least 0.2; otherwise unknown.  The pricing
\* transformer is invoked only when the final type is supplier.
C8_Resolution ==
    /\ AnsweredUnknownByClassifier =>
          /\ supplier_try # None
          /\ client_try # None
          /\ Invoked("parse_quote_lines_from_text")
          /\ Invoked("parse_client_quote_from_text")
          /\ LET n == Len(supplier_try[1].lines)
                 c == client_try[1].confidence
                 final == response[1].quote_type
             IN  /\ final = "supplier" <=> n >= 1
                 /\ n = 0 => (final = "client" <=> c >= 20)
                 /\ (n = 0 /\ c < 20) => final = "unknown"
    /\ Invoked("build_client_quote_from_supplier_parsed") =>
          /\ response # None
          /\ response[1].quote_type = "supplier"
          /\ qtype = Some("supplier")

\* A quote the classifier left unknown, in which both extractors found
\* something: it was answered as a supplier quote and priced.
C8_Witness ==
    /\ AnsweredUnknownByClassifier
    /\ Len(supplier_try[1].lines) >= 1
    /\ client_try[1].confidence >= 20
    /\ response[1].quote_type = "supplier"
    /\ Invoked("build_client_quote_from_supplier_parsed")

\* ------------------------------------------------------------------------
\* Specifications: one per component, each started with every component idle
\* ------------------------------------------------------------------------

AllIdle ==
    /\ BuildIdle /\ ExtractIdle /\ ClassifyIdle /\ ParseIdle /\ ProcessIdle
    /\ PredictIdle
    /\ ClientIdle
    /\ GateIdle
    /\ ConcurrentIdle
    /\ FetchIdle
    /\ DegenerateIdle

InitBuild == AllIdle

NextBuild == Receive \/ Build \/ BuildAgain \/ Forget

SpecBuild == InitBuild /\ [][NextBuild]_vars

InitExtract == AllIdle

NextExtract ==
    ExtractCall \/ TryPyMuPDF \/ TryOcrEarly \/ TryPyPDF \/ TryOcrFinal \/ ExtractReturn

SpecExtract == InitExtract /\ [][NextExtract]_vars

InitClassify == AllIdle

NextClassify == Classify \/ ClassifyReturn

SpecClassify == InitClassify /\ [][NextClassify]_vars

InitParse == AllIdle

NextParse ==
    ParseCall \/ FirstPassLine \/ SecondPass \/ ThirdPass \/ DetectTotals \/ ParseReturn

SpecParse == InitParse /\ [][NextParse]_vars

InitProcess == AllIdle

NextProcess ==
    \/ ProcessCall \/ Download \/ ExtractText \/ ClassifyText \/ TryBoth
    \/ RespondSupplier \/ RespondClient \/ RespondUnknown

SpecProcess == InitProcess /\ [][NextProcess]_vars

InitPredict == AllIdle

NextPredict == Submit \/ CallNamed \/ CallRenamed \/ PredictForget

SpecPredict == InitPredict /\ [][NextPredict]_vars

InitClient == AllIdle

NextClient == ClientCall \/ ClientReturn \/ ClientForget

SpecClient == InitClient /\ [][NextClient]_vars

InitGate == AllIdle

NextGate == GateCall \/ GateReturn \/ GateForget

SpecGate == InitGate /\ [][NextGate]_vars

InitConcurrent == AllIdle

NextConcurrent ==
    \E id \in CallIds :
        \/ CallParser(id) \/ StepFirstPass(id) \/ StepSecondPass(id) \/ StepThirdPass(id)
        \/ StepTotals(id) \/ StepParseReturn(id)
        \/ CallBuilder(id) \/ StepPartition(id) \/ StepBuildReturn(id)
        \/ Collect(id)

SpecConcurrent == InitConcurrent /\ [][NextConcurrent]_vars

InitFetch == AllIdle

NextFetch ==
    \/ FetchCall \/ ReadBody \/ FetchDownload \/ FetchExtract \/ FetchClassify
    \/ FetchParse \/ FetchForget

SpecFetch == InitFetch /\ [][NextFetch]_vars

InitDegenerate == AllIdle

NextDegenerate == DegenerateCall \/ DegenerateReturn \/ DegenerateForget

SpecDegenerate == InitDegenerate /\ [][NextDegenerate]_vars

InitWalk == AllIdle

NextWalk ==
    \/ WalkCall \/ FirstPassLine \/ SecondPass \/ ThirdPass \/ DetectTotals
    \/ ParseReturn

\* The while loop of the first pass runs in one thread and never blocks: an
\* iteration that can be taken is taken.
SpecWalk == InitWalk /\ [][NextWalk]_vars /\ WF_vars(FirstPassLine)

====
